---- MODULE Spec2Model ----
(***************************************************************************)
(* Adaptive moments (SdssShape) of LSST meas_base:                         *)
(*   getWeights, shouldInterp, computeAdaptiveMomentsBBox, calcmom,        *)
(*   getAdaptiveMoments, calc_fisher, computeAdaptiveMoments, measure.     *)
(*                                                                         *)
(* Numbers.  The C++ code computes in binary floating point.  A number is  *)
(* a tuple <<k, s, h, l, e>>.  k = 0 is the finite value                   *)
(*     s * (h * 2^28 + l) * 2^(e - 52)                                     *)
(* with the sign s in {-1, 1}, the 53 bit significand h * 2^28 + l         *)
(* (2^24 <= h < 2^25, 0 <= l < 2^28: in the notation 0x1.921fb54442d18p+1  *)
(* of C, h is 0x1921fb5, l is 0x4442d18 and e is 1), or a zero with its    *)
(* sign, <<0, s, 0, 0, 0>>.  k = 1 is NaN, k = 2 is +Inf, k = 3 is -Inf.   *)
(* Every arithmetic operator takes the width p of the significand it       *)
(* rounds to (round to nearest, ties to even): FloatBits for float,        *)
(* DoubleBits for double; a float is kept with the low bits of its         *)
(* significand zero.  The exponent has the range of the type (IEEE 754     *)
(* binary32 and binary64): a result at or above 2^(MaxExp + 1) is an       *)
(* infinity, and below 2^MinExp the last place stays at                    *)
(* 2^(MinExp - p + 1), so that a subnormal number is kept with its leading *)
(* bit on top and fewer significant bits.  The significand is in two parts *)
(* since the integers of the model checker have 32 bits.                   *)
(***************************************************************************)
EXTENDS Integers, Sequences, FiniteSets, TLC

\* significand width of float (std::numeric_limits<float>::digits)
FloatBits == 24
\* significand width of double (std::numeric_limits<double>::digits)
DoubleBits == 53

NaN == <<1, 0, 0, 0, 0>>
PInf == <<2, 0, 0, 0, 0>>
NInf == <<3, 0, 0, 0, 0>>
Zero == <<0, 1, 0, 0, 0>>
\* the zero of sign s and the infinity of sign s
SignedZero(s) == <<0, s, 0, 0, 0>>
Inf(s) == IF s > 0 THEN PInf ELSE NInf

IsNaN(a) == a[1] = 1
IsFin(a) == a[1] = 0
IsInf(a) == a[1] \in {2, 3}
IsZero(a) == a[1] = 0 /\ a[3] = 0

\* the exponents of the largest finite and of the smallest normal number
\* of width p (numeric_limits<>::max_exponent - 1 and min_exponent - 1)
MaxExp(p) == IF p = FloatBits THEN 127 ELSE 1023
MinExp(p) == 1 - MaxExp(p)
\* the significant bits a number of exponent e has in the type of width p
Kept(p, e) == IF e < MinExp(p) THEN p - (MinExp(p) - e) ELSE p

Pow2(k) == 2 ^ k
\* a magnitude is h * Limb + l with 0 <= l < Limb
Limb == Pow2(28)

\* the number of bits of n, 0 <= n < 2^31
BitLen4(n) == IF n >= 8 THEN 4 ELSE IF n >= 4 THEN 3 ELSE IF n >= 2 THEN 2 ELSE n
\* the bits of n above the lowest k, and their number when there are some
High(n, k) == IF n >= Pow2(k) THEN n \div Pow2(k) ELSE n
Skip(n, k) == IF n >= Pow2(k) THEN k ELSE 0
BitLen8(n) == Skip(n, 4) + BitLen4(High(n, 4))
BitLen16(n) == Skip(n, 8) + BitLen8(High(n, 8))
BitLen(n) == Skip(n, 16) + BitLen16(High(n, 16))
\* the number of bits of the magnitude h * Limb + l
Len2(h, l) == (IF h # 0 THEN 28 ELSE 0) + BitLen(IF h # 0 THEN h ELSE l)

\* <<h, l>> of the magnitude times 2^k, which is below 2^DoubleBits
ShiftLeft(h, l, k) ==
    IF k < 28
    THEN <<h * Pow2(k) + l \div Pow2(28 - k), (l % Pow2(28 - k)) * Pow2(k)>>
    ELSE <<l * Pow2(k - 28), 0>>

\* how the bits dropped by a shift compare with half of the last place
\* kept: 0 none is set, 1 below the half, 2 the half, 3 above the half
RemClass(r, half) ==
    IF r = 0 THEN 0 ELSE IF r < half THEN 1 ELSE IF r = half THEN 2 ELSE 3
RemClassHi(rh, halfh, l) ==
    IF rh < halfh THEN (IF rh = 0 /\ l = 0 THEN 0 ELSE 1)
    ELSE IF rh = halfh /\ l = 0 THEN 2 ELSE 3
\* <<h, l, c>>: the magnitude divided by 2^d, and the class c of the bits
\* dropped, d < 58
ShiftRight(h, l, d) ==
    IF d = 0 THEN <<h, l, 0>>
    ELSE IF d <= 28
    THEN <<h \div Pow2(d), (h % Pow2(d)) * Pow2(28 - d) + l \div Pow2(d),
           RemClass(l % Pow2(d), Pow2(d - 1))>>
    ELSE <<0, h \div Pow2(d - 28),
           RemClassHi(h % Pow2(d - 28), Pow2(d - 29), l)>>

\* the number s * (h * Limb + l) * 2^E of the type of width p, the
\* magnitude of at most DoubleBits bits or, after the carry of a rounding,
\* the power of two with one bit more: an infinity above the largest finite
\* number, a zero when every bit has been rounded away
PackAt(p, s, m, e) == IF e > MaxExp(p) THEN Inf(s) ELSE <<0, s, m[1], m[2], e>>
PackLen(p, s, h, l, E, n) ==
    IF n = 0 THEN SignedZero(s)
    ELSE PackAt(p, s,
                IF n > DoubleBits THEN <<Pow2(24), 0>>
                ELSE ShiftLeft(h, l, DoubleBits - n),
                E + n - 1)
Pack(p, s, h, l, E) == PackLen(p, s, h, l, E, Len2(h, l))

\* s * (h * Limb + l + f) * 2^E rounded to the type of width p, 0 <= f < 1,
\* st <=> f > 0; q is the magnitude without the bits that are dropped
RoundUp(q, st) == q[3] = 3 \/ (q[3] = 2 /\ (st \/ q[2] % 2 = 1))
RoundCut(p, s, q, st, E) ==
    Pack(p, s,
         IF RoundUp(q, st) /\ q[2] + 1 = Limb THEN q[1] + 1 ELSE q[1],
         IF ~RoundUp(q, st) THEN q[2]
         ELSE IF q[2] + 1 = Limb THEN 0 ELSE q[2] + 1,
         E)
\* d bits are dropped, and all of them when the number is below half of the
\* smallest subnormal number
RoundDrop(p, s, h, l, st, E, d) ==
    RoundCut(p, s, ShiftRight(h, l, d), st, E + d)
\* n is the length of the magnitude and k the number of bits to keep
RoundKept(p, s, h, l, st, E, n, k) ==
    IF n <= k THEN PackLen(p, s, h, l, E, n)
    ELSE RoundDrop(p, s, h, l, st, E, IF k < -1 THEN n + 1 ELSE n - k)
RoundLen(p, s, h, l, st, E, n) ==
    IF n = 0 THEN Zero
    ELSE RoundKept(p, s, h, l, st, E, n, Kept(p, E + n - 1))
Round(p, s, h, l, st, E) == RoundLen(p, s, h, l, st, E, Len2(h, l))

\* the sign of a number that is not NaN
Sign(a) == IF a[1] = 2 THEN 1 ELSE IF a[1] = 3 THEN -1 ELSE a[2]
Abs(n) == IF n < 0 THEN -n ELSE n
Max2(a, b) == IF a > b THEN a ELSE b
Min2(a, b) == IF a < b THEN a ELSE b

FNeg(a) == IF a[1] = 0 THEN <<0, -a[2], a[3], a[4], a[5]>>
           ELSE IF a[1] = 2 THEN NInf ELSE IF a[1] = 3 THEN PInf ELSE NaN
FAbs(a) == IF Sign(a) < 0 THEN FNeg(a) ELSE a

\* conversion to the type of width p (double -> float)
FRound(p, a) ==
    IF a[1] # 0 \/ IsZero(a) THEN a
    ELSE Round(p, a[2], a[3], a[4], FALSE, a[5] - (DoubleBits - 1))

\* the double m * 2^e, m an integer of the model checker
Canon(m, e) ==
    IF m = 0 THEN Zero
    ELSE Round(DoubleBits, IF m < 0 THEN -1 ELSE 1,
               Abs(m) \div Limb, Abs(m) % Limb, FALSE, e)
FromInt(n) == Canon(n, 0)

\* the significand in four parts of 14 bits, the lowest first
Limbs(a) ==
    <<a[4] % Pow2(14), a[4] \div Pow2(14), a[3] % Pow2(14), a[3] \div Pow2(14)>>
\* column j of the long multiplication
Col(A, B, j) ==
    CASE j = 0 -> A[1] * B[1]
      [] j = 1 -> A[1] * B[2] + A[2] * B[1]
      [] j = 2 -> A[1] * B[3] + A[2] * B[2] + A[3] * B[1]
      [] j = 3 -> A[1] * B[4] + A[2] * B[3] + A[3] * B[2] + A[4] * B[1]
      [] j = 4 -> A[2] * B[4] + A[3] * B[3] + A[4] * B[2]
      [] j = 5 -> A[3] * B[4] + A[4] * B[3]
      [] j = 6 -> A[4] * B[4]
RECURSIVE MulLimbs(_, _, _, _, _)
\* the exact product in eight parts of 14 bits, the lowest first
MulLimb(A, B, j, t, c) ==
    MulLimbs(A, B, j + 1, t \div Pow2(14), Append(c, t % Pow2(14)))
MulLimbs(A, B, j, k, c) ==
    IF j = 7 THEN Append(c, k) ELSE MulLimb(A, B, j, Col(A, B, j) + k, c)
\* bits 50 to 105 of the product as <<h, l, st>>, st <=> a lower bit is set
MulTop(c) ==
    <<c[8] * Pow2(20) + c[7] * Pow2(6) + c[6] \div Pow2(8),
      (c[6] % Pow2(8)) * Pow2(20) + c[5] * Pow2(6) + c[4] \div Pow2(8),
      c[4] % Pow2(8) # 0 \/ c[3] # 0 \/ c[2] # 0 \/ c[1] # 0>>
MulRound(p, s, E, T) == Round(p, s, T[1], T[2], T[3], E)
FMul(p, a, b) ==
    IF IsNaN(a) \/ IsNaN(b) THEN NaN
    ELSE IF IsInf(a) \/ IsInf(b)
         THEN (IF IsZero(a) \/ IsZero(b) THEN NaN ELSE Inf(Sign(a) * Sign(b)))
    ELSE IF IsZero(a) \/ IsZero(b) THEN SignedZero(a[2] * b[2])
    ELSE MulRound(p, a[2] * b[2], a[5] + b[5] - 54,
                  MulTop(MulLimbs(Limbs(a), Limbs(b), 0, 0, <<>>)))

\* long division, a bit at a time: D is <<q, rh, rl, k>>, the quotient so
\* far, the remainder rh * Limb + rl and the number of bits still to come;
\* the divisor is dh * Limb + dl; in DivSub the remainder is already doubled
DivSub(q, rh, rl, dh, dl, k) ==
    IF rh > dh \/ (rh = dh /\ rl >= dl)
    THEN (IF rl >= dl THEN <<2 * q + 1, rh - dh, rl - dl, k - 1>>
          ELSE <<2 * q + 1, rh - dh - 1, rl - dl + Limb, k - 1>>)
    ELSE <<2 * q, rh, rl, k - 1>>
DivNext(D, dh, dl) ==
    DivSub(D[1], 2 * D[2] + D[3] \div Pow2(27), 2 * (D[3] % Pow2(27)),
           dh, dl, D[4])
Div3(D, dh, dl) == DivNext(DivNext(DivNext(D, dh, dl), dh, dl), dh, dl)
RECURSIVE DivBits(_, _, _)
\* the bits still to come, three at a time
DivBits(D, dh, dl) ==
    IF D[4] = 0 THEN D ELSE DivBits(Div3(D, dh, dl), dh, dl)

\* the quotient of two significands to 55 bits: 28 bits, then 27 more
DivLow(p, s, E, hi, lo) ==
    Round(p, s, hi[1] \div 2, (hi[1] % 2) * Pow2(27) + lo[1],
          lo[2] # 0 \/ lo[3] # 0, E)
DivHigh(p, s, E, hi, dh, dl) ==
    DivLow(p, s, E, hi, DivBits(<<0, hi[2], hi[3], 27>>, dh, dl))
DivMag(p, s, E, a, b) ==
    DivHigh(p, s, E,
            DivBits(DivSub(0, a[3], a[4], b[3], b[4], 28), b[3], b[4]),
            b[3], b[4])
FDiv(p, a, b) ==
    IF IsNaN(a) \/ IsNaN(b) THEN NaN
    ELSE IF IsInf(a) THEN (IF IsInf(b) THEN NaN ELSE Inf(Sign(a) * Sign(b)))
    ELSE IF IsInf(b) THEN SignedZero(Sign(a) * Sign(b))
    ELSE IF IsZero(b) THEN (IF IsZero(a) THEN NaN ELSE Inf(a[2] * b[2]))
    ELSE IF IsZero(a) THEN SignedZero(a[2] * b[2])
    ELSE DivMag(p, a[2] * b[2], a[5] - b[5] - 54, a, b)

\* |a| >= |b| for finite numbers that are not zero
MagGe(a, b) ==
    \/ a[5] > b[5]
    \/ a[5] = b[5] /\ (a[3] > b[3] \/ (a[3] = b[3] /\ a[4] >= b[4]))
\* the significand with two more bits below it
Guard(a) == <<4 * a[3] + a[4] \div Pow2(26), 4 * (a[4] % Pow2(26))>>
\* the guarded significand g brought d places down
AlignTo(g, d) == IF d >= 56 THEN <<0, 0, 1>> ELSE ShiftRight(g[1], g[2], d)
\* h * Limb + l with the carry or the borrow of the low part brought to
\* the high part
AddCarry(p, s, h, l, st, E) ==
    Round(p, s,
          IF l >= Limb THEN h + 1 ELSE IF l < 0 THEN h - 1 ELSE h,
          IF l >= Limb THEN l - Limb ELSE IF l < 0 THEN l + Limb ELSE l,
          st, E)
\* A + B or A - B for the aligned magnitudes A >= B; the fraction that B
\* lost is taken from the difference
AddAligned(p, s, same, A, B, E) ==
    AddCarry(p, s,
             IF same THEN A[1] + B[1] ELSE A[1] - B[1],
             IF same THEN A[2] + B[2]
             ELSE A[2] - B[2] - (IF B[3] # 0 THEN 1 ELSE 0),
             B[3] # 0, E)
\* a + b for |a| >= |b|
AddMag(p, a, b) ==
    AddAligned(p, a[2], a[2] = b[2], Guard(a), AlignTo(Guard(b), a[5] - b[5]),
               a[5] - (DoubleBits + 1))
FAdd(p, a, b) ==
    IF IsNaN(a) \/ IsNaN(b) THEN NaN
    ELSE IF IsInf(a) THEN (IF IsInf(b) /\ a # b THEN NaN ELSE a)
    ELSE IF IsInf(b) THEN b
    ELSE IF IsZero(a) /\ IsZero(b) THEN (IF a = b THEN a ELSE Zero)
    ELSE IF IsZero(a) \/ IsZero(b) THEN FRound(p, IF IsZero(a) THEN b ELSE a)
    ELSE AddMag(p, IF MagGe(a, b) THEN a ELSE b, IF MagGe(a, b) THEN b ELSE a)

FSub(p, a, b) == FAdd(p, a, FNeg(b))

\* bit pair i of the 27 pairs of xh * Limb + xl, the highest first; the
\* pairs after them are zero
SqrtPair(xh, xl, i) ==
    IF i < 13 THEN (xh \div Pow2(2 * (12 - i))) % 4
    ELSE IF i < 27 THEN (xl \div Pow2(2 * (26 - i))) % 4
    ELSE 0
\* digit-by-digit square root: S is <<qh, ql, rh, rl, i>>, the root so far
\* qh * Limb + ql, the remainder rh * Limb + rl and the number of pairs
\* taken; in SqrtStep the remainder has taken pair i and th * Limb + tl is
\* 4 * root + 1
SqrtStep(qh, ql, rh, rl, th, tl, i) ==
    IF rh > th \/ (rh = th /\ rl >= tl)
    THEN (IF rl >= tl
          THEN <<2 * qh + ql \div Pow2(27), 2 * (ql % Pow2(27)) + 1,
                 rh - th, rl - tl, i + 1>>
          ELSE <<2 * qh + ql \div Pow2(27), 2 * (ql % Pow2(27)) + 1,
                 rh - th - 1, rl - tl + Limb, i + 1>>)
    ELSE <<2 * qh + ql \div Pow2(27), 2 * (ql % Pow2(27)), rh, rl, i + 1>>
SqrtNext(S, xh, xl) ==
    SqrtStep(S[1], S[2],
             4 * S[3] + S[4] \div Pow2(26),
             4 * (S[4] % Pow2(26)) + SqrtPair(xh, xl, S[5]),
             4 * S[1] + S[2] \div Pow2(26), 4 * (S[2] % Pow2(26)) + 1, S[5])
Sqrt3(S, xh, xl) == SqrtNext(SqrtNext(SqrtNext(S, xh, xl), xh, xl), xh, xl)
RECURSIVE SqrtBits(_, _, _)
\* the 54 bits of the root, three at a time
SqrtBits(S, xh, xl) ==
    IF S[5] = 54 THEN S ELSE SqrtBits(Sqrt3(S, xh, xl), xh, xl)
SqrtRound(p, E, S) == Round(p, 1, S[1], S[2], S[3] # 0 \/ S[4] # 0, E)
\* the root of (xh * Limb + xl) * 2^t, t even
SqrtMag(p, xh, xl, t) ==
    SqrtRound(p, t \div 2 - 27, SqrtBits(<<0, 0, 0, 0, 0>>, xh, xl))
FSqrt(p, a) ==
    IF IsNaN(a) THEN NaN
    ELSE IF IsZero(a) THEN a
    ELSE IF Sign(a) < 0 THEN NaN
    ELSE IF IsInf(a) THEN PInf
    ELSE SqrtMag(p,
                 IF a[5] % 2 = 0 THEN a[3] ELSE 2 * a[3] + a[4] \div Pow2(27),
                 IF a[5] % 2 = 0 THEN a[4] ELSE 2 * (a[4] % Pow2(27)),
                 IF a[5] % 2 = 0 THEN a[5] - (DoubleBits - 1)
                 ELSE a[5] - DoubleBits)

\* comparisons; every comparison with NaN is false, and the two zeros are
\* equal
FLt(a, b) ==
    /\ ~IsNaN(a) /\ ~IsNaN(b)
    /\ a # b
    /\ IF a = NInf \/ b = PInf THEN TRUE
       ELSE IF a = PInf \/ b = NInf THEN FALSE
       ELSE IF IsZero(a) THEN ~IsZero(b) /\ b[2] > 0
       ELSE IF IsZero(b) THEN a[2] < 0
       ELSE IF a[2] # b[2] THEN a[2] < b[2]
       ELSE IF a[2] > 0 THEN ~MagGe(a, b) ELSE ~MagGe(b, a)
FGt(a, b) == FLt(b, a)
FEq(a, b) == ~IsNaN(a) /\ ~IsNaN(b) /\ (a = b \/ (IsZero(a) /\ IsZero(b)))
FLe(a, b) == FLt(a, b) \/ FEq(a, b)
FGe(a, b) == FLe(b, a)
FNe(a, b) == ~FEq(a, b)

\* a double and a float operation
DMul(a, b) == FMul(DoubleBits, a, b)
DDiv(a, b) == FDiv(DoubleBits, a, b)
DAdd(a, b) == FAdd(DoubleBits, a, b)
DSub(a, b) == FSub(DoubleBits, a, b)
DSqrt(a) == FSqrt(DoubleBits, a)
SMul(a, b) == FMul(FloatBits, a, b)
SDiv(a, b) == FDiv(FloatBits, a, b)
SAdd(a, b) == FAdd(FloatBits, a, b)
SSub(a, b) == FSub(FloatBits, a, b)
ToFloat(a) == FRound(FloatBits, a)
\* the double nearest to the decimal literal n / d
DLit(n, d) == DDiv(FromInt(n), FromInt(d))
SLit(n, d) == SDiv(FromInt(n), FromInt(d))


(***************************************************************************)
(* Constants of the code                                                   *)
(***************************************************************************)
One == FromInt(1)
Two == FromInt(2)
\* std::numeric_limits<float>::epsilon() and std::numeric_limits<double>::epsilon()
FltEpsilon == Canon(1, 1 - FloatBits)
DblEpsilon == Canon(1, 1 - DoubleBits)
\* geom::PI and geom::TWOPI
\* 0x1.921fb54442d18p+1, the double nearest to pi
PI == <<0, 1, 26353589, 71576856, 1>>
TWOPI == DMul(Two, PI)
\* "float const xinterp = 0.25"
xinterp == SLit(1, 4)
\* the limit of the weights in calcmom, 1e6
WeightMax == FromInt(1000000)
\* "double epsilon = 1.0e-6" of computeAdaptiveMoments
epsilon == DLit(1, 1000000)
\* 1 / 12.0, the second moment of a single pixel
Twelfth == DDiv(One, FromInt(12))
\* the defaults of SdssShapeControl: tol1 = 1e-5, tol2 = 1e-4 (both float)
tol1 == SLit(1, 100000)
tol2 == SLit(1, 10000)
\* "maxRadius = 1000"
maxRadius == FromInt(1000)

(***************************************************************************)
(* getWeights: <<ok, det, w11, w12, w22>>                                  *)
(***************************************************************************)
\* variant: the determinant is compared with the epsilon of double
getWeightsDetDouble(sigma11, sigma12, sigma22, det) ==
    IF IsNaN(det) \/ FLt(det, DblEpsilon)
    THEN <<FALSE, det, NaN, NaN, NaN>>
    ELSE <<TRUE, det, DDiv(sigma22, det), DDiv(FNeg(sigma12), det),
           DDiv(sigma11, det)>>

\* variant: the last weight is sigma11, not divided by the determinant
getWeightsDetUnscaled(sigma11, sigma12, sigma22, det) ==
    IF IsNaN(det) \/ FLt(det, FltEpsilon)
    THEN <<FALSE, det, NaN, NaN, NaN>>
    ELSE <<TRUE, det, DDiv(sigma22, det), DDiv(FNeg(sigma12), det), sigma11>>

getWeightsDet(sigma11, sigma12, sigma22, det) ==
    IF IsNaN(det) \/ FLt(det, FltEpsilon)
    THEN <<FALSE, det, NaN, NaN, NaN>>
    ELSE <<TRUE, det, DDiv(sigma22, det), DDiv(FNeg(sigma12), det),
           DDiv(sigma11, det)>>
getWeights(sigma11, sigma12, sigma22) ==
    IF IsNaN(sigma11) \/ IsNaN(sigma12) \/ IsNaN(sigma22)
    THEN <<FALSE, NaN, NaN, NaN, NaN>>
    ELSE getWeightsDet(sigma11, sigma12, sigma22,
                       DSub(DMul(sigma11, sigma22), DMul(sigma12, sigma12)))

shouldInterp(sigma11, sigma22, det) ==
    \/ FLt(sigma11, xinterp)
    \/ FLt(sigma22, xinterp)
    \/ FLt(det, SMul(xinterp, xinterp))

(***************************************************************************)
(* Boxes.  A geom::Box2I is <<minX, minY, maxX, maxY>>; the empty box has  *)
(* minimum (0, 0) and dimensions (0, 0), so that its maximum is (-1, -1).  *)
(***************************************************************************)
\* extent of the image in pixels
ImgW == 7
ImgH == 7

EmptyBox == <<0, 0, -1, -1>>
\* image.getBBox(afw::image::LOCAL)
ImageBBox == <<0, 0, ImgW - 1, ImgH - 1>>
BoxIsEmpty(b) == b[3] < b[1] \/ b[4] < b[2]

\* std::floor and std::ceil of a finite number, as an integer
\* <<the integer part of |a|, whether |a| has a fraction>>, |a| < 2^31
FloorMag(a) ==
    IF a[5] < 0 THEN <<0, TRUE>>
    ELSE IF a[5] <= 24
    THEN <<a[3] \div Pow2(24 - a[5]), a[3] % Pow2(24 - a[5]) # 0 \/ a[4] # 0>>
    ELSE <<a[3] * Pow2(a[5] - 24) + a[4] \div Pow2(52 - a[5]),
           a[4] % Pow2(52 - a[5]) # 0>>
FloorSigned(s, m) ==
    IF s > 0 THEN m[1] ELSE IF m[2] THEN -m[1] - 1 ELSE -m[1]
FloorInt(a) == IF IsZero(a) THEN 0 ELSE FloorSigned(a[2], FloorMag(a))
CeilInt(a) == -FloorInt(FNeg(a))

\* std::max and std::min on doubles
FMax(a, b) == IF FLt(a, b) THEN b ELSE a
FMin(a, b) == IF FLt(b, a) THEN b ELSE a

Half == DLit(1, 2)

\* stands for the InvalidParameterError that geom::Box2I(geom::Box2D) throws
\* for a box that is not empty and has a bound that is not finite
NonFiniteBox == <<0, 0, -2, -2>>
\* geom::Box2I(geom::Box2D(lo, hi)) with the default edge handling EXPAND;
\* a Box2D whose minimum x is not a number is the empty box
Box2IFromBox2D(lox, loy, hix, hiy) ==
    IF IsNaN(lox) \/ FEq(lox, hix) \/ FEq(loy, hiy) THEN EmptyBox
    ELSE IF ~IsFin(lox) \/ ~IsFin(loy) \/ ~IsFin(hix) \/ ~IsFin(hiy)
    THEN NonFiniteBox
    ELSE <<FloorInt(DAdd(FMin(lox, hix), Half)),
           FloorInt(DAdd(FMin(loy, hiy), Half)),
           CeilInt(DSub(FMax(lox, hix), Half)),
           CeilInt(DSub(FMax(loy, hiy), Half))>>

\* Box2I::clip
ClipTo(b, c, r) ==
    IF BoxIsEmpty(b) \/ BoxIsEmpty(c) \/ BoxIsEmpty(r) THEN EmptyBox ELSE r
\* variant: the box is left as it is
ClipNothing(b, c) == b

Clip(b, c) ==
    ClipTo(b, c, <<Max2(b[1], c[1]), Max2(b[2], c[2]),
                   Min2(b[3], c[3]), Min2(b[4], c[4])>>)

\* the box before it is clipped to the image
BoxAround(cx, cy, radius) ==
    Box2IFromBox2D(DSub(cx, radius), DSub(cy, radius),
                   DAdd(cx, radius), DAdd(cy, radius))
UnclippedBBox(cx, cy, sigma11_w, sigma22_w) ==
    BoxAround(cx, cy,
              FMin(DMul(FromInt(4), DSqrt(FMax(sigma11_w, sigma22_w))), maxRadius))

ClipFinite(b, bbox) == IF b = NonFiniteBox THEN b ELSE Clip(b, bbox)
computeAdaptiveMomentsBBox(bbox, cx, cy, sigma11_w, sigma12_w, sigma22_w) ==
    ClipFinite(UnclippedBBox(cx, cy, sigma11_w, sigma22_w), bbox)

(***************************************************************************)
(* calcmom, the accumulator of the weighted moments.  The pixel loop sums  *)
(* weight * (pixel - bkgd) over the pixels of the box whose exponent is at *)
(* most 14 (9 at the worst corner of the pixel when it interpolates), with *)
(* weight = exp(-expon / 2).  Which pixels are summed is computed as the   *)
(* code computes it.  The sums themselves are linear in the pixel values   *)
(* with weights that std::exp gives, and the model takes them as the       *)
(* image's answer to the call, <<sum, sumx, sumy, sumxx, sumxy, sumyy>>    *)
(* (sums4 is written and never read); when no pixel is summed, as in an    *)
(* empty box, the sums are the zeros they were set to at line 300.         *)
(* The result is [exc, read, ret, I0, sums]: exc names the exception       *)
(* thrown ("none" when the call returns), read tells that the loop over    *)
(* the pixels was reached, ret is the returned int.                        *)
(***************************************************************************)
ZeroSums == <<Zero, Zero, Zero, Zero, Zero, Zero>>
\* the value of a variable that was declared and never assigned
Uninit == <<4, 0, 0, 0, 0>>
UninitSums == <<Uninit, Uninit, Uninit, Uninit, Uninit, Uninit>>

\* "w11 < 0 || w11 > 1e6 || fabs(w12) > 1E6 || w22 < 0 || w22 > 1e6"
BadWeights(w11, w12, w22) ==
    \/ FLt(w11, Zero) \/ FGt(w11, WeightMax)
    \/ FGt(FAbs(w12), WeightMax)
    \/ FLt(w22, Zero) \/ FGt(w22, WeightMax)

\* "ix0 < 0 || ix1 >= image.getWidth() || iy0 < 0 || iy1 >= image.getHeight()"
BoxOutside(bbox) ==
    bbox[1] < 0 \/ bbox[3] >= ImgW \/ bbox[2] < 0 \/ bbox[4] >= ImgH

\* lines 353-355: the exponent at the pixel whose centre is at (x, y) from
\* the centre of the object; x and y are float, the weights double
ExponFlat(x, y, w11, w12, w22) ==
    ToFloat(DAdd(DAdd(DMul(SMul(x, x), w11), DMul(SMul(Two, SMul(x, y)), w12)),
                 DMul(SMul(y, y), w22)))
\* lines 323-328: the exponent at one corner of the interpolated pixel
ExponCorner(x, y, w11, w12, w22) ==
    ToFloat(DAdd(DAdd(DMul(SMul(x, x), w11), DMul(SMul(y, y), w22)),
                 DMul(DMul(DMul(Two, x), y), w12)))
\* "expon = (expon > tmp) ? expon : tmp"
ExponMax(expon, tmp) == IF FGt(expon, tmp) THEN expon ELSE tmp
\* lines 323-329: the largest exponent of the four corners
ExponCorners(xl, xh, yl, yh, w11, w12, w22) ==
    ExponMax(ExponMax(ExponMax(ExponCorner(xl, yl, w11, w12, w22),
                               ExponCorner(xh, yh, w11, w12, w22)),
                      ExponCorner(xl, yh, w11, w12, w22)),
             ExponCorner(xh, yl, w11, w12, w22))
\* the corners are 0.375 from the centre of the pixel
CornerOffset == DLit(3, 8)
\* lines 315-316 and 320-321: <<xl, xh, yl, yh>>
Corners(x, y) ==
    <<ToFloat(DSub(x, CornerOffset)), ToFloat(DAdd(x, CornerOffset)),
      ToFloat(DSub(y, CornerOffset)), ToFloat(DAdd(y, CornerOffset))>>
\* lines 331 and 357: the pixel is summed
PixelUsedAt(x, y, interpflag, w11, w12, w22) ==
    IF interpflag
    THEN \E c \in {Corners(x, y)} :
            FLe(ExponCorners(c[1], c[2], c[3], c[4], w11, w12, w22), FromInt(9))
    ELSE FLe(ExponFlat(x, y, w11, w12, w22), FromInt(14))
\* lines 313 and 318: "float const y = i - ycen", "float x = j - xcen"
PixelUsed(j, i, xcen, ycen, interpflag, w11, w12, w22) ==
    \E p \in {<<SSub(FromInt(j), xcen), SSub(FromInt(i), ycen)>>} :
       PixelUsedAt(p[1], p[2], interpflag, w11, w12, w22)
\* some pixel of the box is summed by the loops of lines 311-371
SomePixelUsed(xcen, ycen, bbox, interpflag, w11, w12, w22) ==
    \E i \in bbox[2]..bbox[4], j \in bbox[1]..bbox[3] :
       PixelUsed(j, i, xcen, ycen, interpflag, w11, w12, w22)
AnyPixelUsed(xcen, ycen, bbox, interpflag, w11, w12, w22) ==
    \E a \in {<<xcen, ycen, bbox, interpflag, w11, w12, w22>>} :
       SomePixelUsed(a[1], a[2], a[3], a[4], a[5], a[6], a[7])
\* the sums of the loops: the image's answer, or the zeros of line 300
LoopSumsOf(used, pixsums, zeros) == IF used THEN pixsums ELSE zeros

\* variant: the sign of sumyy is not looked at
SumsRetNoYY(sums, negative) ==
    IF negative
    THEN (IF FLt(sums[1], Zero) /\ FLt(sums[4], Zero) THEN 0 ELSE -1)
    ELSE (IF FGt(sums[1], Zero) /\ FGt(sums[4], Zero) THEN 0 ELSE -1)

\* "(sum > 0 && sumxx > 0 && sumyy > 0) ? 0 : -1", and its negative form
SumsRet(sums, negative) ==
    IF negative
    THEN (IF FLt(sums[1], Zero) /\ FLt(sums[4], Zero) /\ FLt(sums[6], Zero)
          THEN 0 ELSE -1)
    ELSE (IF FGt(sums[1], Zero) /\ FGt(sums[4], Zero) /\ FGt(sums[6], Zero)
          THEN 0 ELSE -1)

\* lines 374-393
calcmomEnd(sums, weights, negative) ==
    [exc  |-> "none",
     read |-> TRUE,
     ret  |-> SumsRet(sums, negative),
     I0   |-> DDiv(sums[1],
                   DMul(PI, DSqrt(DSub(DMul(weights[3], weights[5]),
                                       DMul(weights[4], weights[4]))))),
     sums |-> sums]
\* pixsums is the image's answer; xcen and ycen are float (lines 278-289)
calcmom(pixsums, xcen, ycen, bbox, interpflag, w11, w12, w22, negative) ==
    IF BadWeights(w11, w12, w22)
    THEN [exc |-> "InvalidParameterError", read |-> FALSE, ret |-> 0,
          I0 |-> NaN, sums |-> ZeroSums]
    ELSE IF BoxOutside(bbox)
    THEN [exc |-> "LengthError", read |-> FALSE, ret |-> 0,
          I0 |-> NaN, sums |-> ZeroSums]
    ELSE CHOOSE r \in {calcmomEnd(LoopSumsOf(used, pixsums, ZeroSums),
                                   getWeights(w11, w12, w22), negative) :
                           used \in {AnyPixelUsed(xcen, ycen, bbox, interpflag,
                                                  w11, w12, w22)}} : TRUE

(***************************************************************************)
(* calc_fisher: [exc, fisher], the exception thrown ("none" when the call  *)
(* returns) and the Fisher matrix, a function on (0..3) \X (0..3)          *)
(***************************************************************************)
\* lines 103-121
FisherMatrix(sigma11W, sigma12W, sigma22W, F, fac1, fac, f33) ==
    [ij \in (0..3) \X (0..3) |->
       CASE ij \in {<<0, 0>>} -> F
         [] ij \in {<<0, 1>>, <<1, 0>>} -> DMul(fac1, sigma22W)
         [] ij \in {<<0, 2>>, <<2, 0>>} -> DMul(fac1, sigma11W)
         [] ij \in {<<0, 3>>, <<3, 0>>} -> DMul(DMul(FNeg(fac1), Two), sigma12W)
         [] ij \in {<<1, 1>>} -> DMul(DMul(fac, sigma22W), sigma22W)
         [] ij \in {<<2, 2>>} -> DMul(DMul(fac, sigma11W), sigma11W)
         [] ij \in {<<3, 3>>} -> f33
         [] ij \in {<<1, 2>>, <<2, 1>>} -> DDiv(f33, FromInt(4))
         [] ij \in {<<1, 3>>, <<3, 1>>} ->
              DMul(fac, SMul(SMul(FromInt(-2), sigma22W), sigma12W))
         [] ij \in {<<2, 3>>, <<3, 2>>} ->
              DMul(fac, SMul(SMul(FromInt(-2), sigma11W), sigma12W))]
\* line 114: fisher(3, 3)
FisherFac(sigma11W, sigma12W, sigma22W, D, F, fac1, fac) ==
    FisherMatrix(sigma11W, sigma12W, sigma22W, F, fac1, fac,
                 DMul(DMul(fac, FromInt(4)),
                      DAdd(SMul(sigma12W, sigma12W), DDiv(D, FromInt(3)))))
\* lines 102 and 111: the two values of fac
FisherF(A, sigma11W, sigma12W, sigma22W, D, F) ==
    FisherFac(sigma11W, sigma12W, sigma22W, D, F,
              DDiv(DMul(F, A), DMul(FromInt(4), D)),
              DDiv(DMul(DMul(DMul(FromInt(3), F), A), A),
                   DMul(DMul(FromInt(16), D), D)))
\* lines 86-96
FisherD(A, sigma11W, sigma12W, sigma22W, bkgd_var, D) ==
    [exc |-> IF FLe(D, DblEpsilon) \/ FLe(bkgd_var, Zero)
             THEN "DomainError" ELSE "none",
     fisher |-> FisherF(A, sigma11W, sigma12W, sigma22W, D,
                        DDiv(DMul(PI, DSqrt(D)), bkgd_var))]
\* line 84
FisherFloats(A, sigma11W, sigma12W, sigma22W, bkgd_var) ==
    FisherD(A, sigma11W, sigma12W, sigma22W, bkgd_var,
            SSub(SMul(sigma11W, sigma22W), SMul(sigma12W, sigma12W)))
calc_fisher(shape, bkgd_var) ==
    FisherFloats(ToFloat(shape.instFlux), ToFloat(shape.xx), ToFloat(shape.xy),
                 ToFloat(shape.yy), bkgd_var)

\* Eigen's inverse of a 4x4 matrix by cofactors: the entries the code reads
general_det3_helper(m, i1, i2, i3, j1, j2, j3) ==
    DMul(m[<<i1, j1>>], DSub(DMul(m[<<i2, j2>>], m[<<i3, j3>>]),
                              DMul(m[<<i2, j3>>], m[<<i3, j2>>])))
cofactor_3(m, i1, i2, i3, j1, j2, j3) ==
    DAdd(DAdd(general_det3_helper(m, i1, i2, i3, j1, j2, j3),
              general_det3_helper(m, i2, i3, i1, j1, j2, j3)),
         general_det3_helper(m, i3, i1, i2, j1, j2, j3))
cofactor_4x4(m, i, j) ==
    cofactor_3(m, (i + 1) % 4, (i + 2) % 4, (i + 3) % 4,
               (j + 1) % 4, (j + 2) % 4, (j + 3) % 4)
\* entry (i, j) of the adjugate
Negate(neg, a) == IF neg THEN FNeg(a) ELSE a
Adj(m, i, j) == Negate((i + j) % 2 # 0, cofactor_4x4(m, j, i))
UpperEntries == {ij \in (0..3) \X (0..3) : ij[1] <= ij[2]}
InverseDet(adj, det) == [ij \in UpperEntries |-> DDiv(adj[ij], det)]
InverseAdj(m, adj) ==
    InverseDet(adj, DAdd(DAdd(DAdd(DMul(m[<<0, 0>>], adj[<<0, 0>>]),
                                   DMul(m[<<1, 0>>], adj[<<0, 1>>])),
                              DMul(m[<<2, 0>>], adj[<<0, 2>>])),
                         DMul(m[<<3, 0>>], adj[<<0, 3>>])))
inverse(m) == InverseAdj(m, [ij \in UpperEntries |-> Adj(m, ij[1], ij[2])])

(***************************************************************************)
(* State.                                                                  *)
(*   pc     position in SdssShapeAlgorithm::measure and its callees        *)
(*   in     the inputs of the measurement                                  *)
(*   loc    the local variables of getAdaptiveMoments                      *)
(*   shape  the SdssShapeResult that is filled in                          *)
(*   exc    the exception in flight or thrown ("none" without one)         *)
(*   hist   what has run: the loop passes, the calls of calcmom in the     *)
(*          loop, the passes redone (iter--), how the loop was left        *)
(*          (exit), the box of the last call of calcmom before (ubox) and  *)
(*          after (cbox) it was clipped to the image, the calls of calcmom *)
(*          with zero weights (fbcalls) and their outcome (fb), how        *)
(*          getAdaptiveMoments ended (gam), the variance that was read     *)
(*          (var), whether the error terms were stored (fisher), whether   *)
(*          every sum that calcmom has returned was zero (flat)            *)
(*   rec    the source record: whether the result was written to it, its   *)
(*          flags, and what became of the PSF when measure asked for it    *)
(*   fx     the calls of computeFixedMomentsFlux: their arguments and what  *)
(*          each call did                                                   *)
(*   gw     an application of getWeights: its arguments and its results     *)
(*   acc    a call of calcmom: its arguments, the caller's output          *)
(*          variables and what the call did                                *)
(***************************************************************************)
VARIABLES pc, in, loc, shape, exc, hist, rec, fx, gw, acc

vars == <<pc, in, loc, shape, exc, hist, rec, fx, gw, acc>>

FlagNames == {"failure", "unweightedBad", "unweighted", "shift", "maxIter", "psfShapeBad"}

\* largest maxIter of the inputs
MaxIterBound == 2

\* the centre at which the image of a line of pixels is measured
LineCentre == <<DLit(193, 64), FromInt(3)>>

\* the centres the measurement is started at (LOCAL coordinates)
Centers == {<<FromInt(3), FromInt(3)>>, <<FromInt(-1), DLit(5, 2)>>,
            <<FromInt(40), FromInt(3)>>, <<NaN, FromInt(3)>>, LineCentre}
\* control.maxShift
MaxShifts == {Zero, FromInt(15)}

\* SdssShapeResult(): every field NaN, every flag clear
NewShape ==
    [flags |-> [f \in FlagNames |-> FALSE],
     x |-> NaN, y |-> NaN, xx |-> NaN, yy |-> NaN, xy |-> NaN,
     instFlux |-> NaN, instFluxErr |-> NaN,
     xxErr |-> NaN, yyErr |-> NaN, xyErr |-> NaN,
     instFlux_xx_Cov |-> NaN, instFlux_yy_Cov |-> NaN, instFlux_xy_Cov |-> NaN,
     xx_yy_Cov |-> NaN, xx_xy_Cov |-> NaN, yy_xy_Cov |-> NaN]

\* the locals of getAdaptiveMoments as declared (lines 404-430)
NewLocals ==
    [I0 |-> Zero, sums |-> UninitSums,
     sigma11W |-> DLit(3, 2), sigma12W |-> Zero, sigma22W |-> DLit(3, 2),
     w11 |-> FromInt(-1), w12 |-> FromInt(-1), w22 |-> FromInt(-1),
     e1_old |-> FromInt(1000000), e2_old |-> FromInt(1000000),
     sigma11_ow_old |-> FromInt(1000000),
     interpflag |-> FALSE, bbox |-> EmptyBox, iter |-> 0, shiftmax |-> Zero]

NewHist == [passes |-> 0, calls |-> 0, redo |-> 0, exit |-> "none",
            ubox |-> EmptyBox, cbox |-> EmptyBox,
            fbcalls |-> 0, fb |-> "none", gam |-> "none",
            var |-> Uninit, fisher |-> FALSE, flat |-> TRUE]

\* the arguments of a measurement
Inputs ==
    {i \in [xcen : {c[1] : c \in Centers}, ycen : {c[2] : c \in Centers},
            maxIter : -1..MaxIterBound, maxShift : MaxShifts, negative : BOOLEAN] :
       <<i.xcen, i.ycen>> \in Centers}

\* the centroid slot of the record: no slot is defined ("undefined"), a
\* position and no flag ("valid"), a position and the flag ("flagged"), NaN
\* with the flag and a footprint with a peak ("peak"), NaN and no peak to
\* fall back on ("none": no flag key, the flag clear, no footprint, or a
\* footprint without peaks)
SlotCentroids == {"undefined", "valid", "flagged", "peak", "none"}

\* the state before measure is entered with one of the given arguments, on
\* a record with one of the given centroid slots
MeasureStartOn(inputs, slots) ==
    /\ pc = "start"
    /\ in \in inputs
    /\ loc = NewLocals
    /\ shape = NewShape
    /\ exc = "none"
    /\ hist = NewHist
    /\ rec \in [written : {FALSE}, flags : {[f \in FlagNames |-> FALSE]},
                psf : {"unconsulted"}, slot : slots]

\* the state before measure is entered with one of the given arguments
MeasureStart(inputs) == MeasureStartOn(inputs, {"valid"})

\* nothing is called but measure
Idle == [on |-> FALSE]

Init ==
    /\ MeasureStart(Inputs)
    /\ fx = Idle
    /\ gw = Idle
    /\ acc = Idle

Set(sh, f) == [sh EXCEPT !.flags[f] = TRUE]

(***************************************************************************)
(* computeAdaptiveMoments, lines 768-781, and getAdaptiveMoments up to     *)
(* the loop, lines 404-430                                                 *)
(***************************************************************************)
\* variant: maxShift has no upper limit
ClampToNoUpper(shiftmax) ==
    IF FLt(shiftmax, Two) THEN Two ELSE shiftmax

\* "if (shiftmax < 2) shiftmax = 2; else if (shiftmax > 10) shiftmax = 10;"
ClampTo(shiftmax) ==
    IF FLt(shiftmax, Two) THEN Two
    ELSE IF FGt(shiftmax, FromInt(10)) THEN FromInt(10) ELSE shiftmax
ClampShift(maxShift) == ClampTo(ToFloat(maxShift))

\* variant: a NaN centre is not looked for
BadCentreNever(xcen, ycen) == FALSE

\* line 422: "std::isnan(xcen) || std::isnan(ycen)"
BadCentre(xcen, ycen) == IsNaN(xcen) \/ IsNaN(ycen)

\* SafeCentroidExtractor::operator(): the exception it throws, "none" when
\* it returns: the centroid slot is not defined (FatalAlgorithmError), or
\* it is NaN and there is nothing to replace it by (RuntimeError)
ExtractorError(slot) ==
    IF slot = "undefined" THEN "FatalAlgorithmError"
    ELSE IF slot = "none" THEN "RuntimeError" ELSE "none"
ExtractorThrows(slot) == ExtractorError(slot) # "none"

\* SafeCentroidExtractor::operator(): "flags.setValue(record,
\* FlagHandler::FAILURE, true)", for the peak and for a flagged centroid
ExtractorFlags(slot) == slot \in {"flagged", "peak"}

\* measure up to the loop of getAdaptiveMoments: the centre (in.xcen,
\* in.ycen) is what the extractor has returned
Enter ==
    /\ pc = "start"
    /\ IF ExtractorThrows(rec.slot)
       THEN /\ exc' = ExtractorError(rec.slot)
            /\ pc' = "thrown"
            /\ UNCHANGED <<loc, shape, hist, rec>>
       ELSE /\ rec' = [rec EXCEPT !.flags["failure"] = @ \/ ExtractorFlags(rec.slot)]
            /\ loc' = [loc EXCEPT !.shiftmax = ClampShift(in.maxShift)]
            /\ exc' = exc
            /\ IF BadCentre(in.xcen, in.ycen)
               THEN /\ shape' = Set(shape, "unweightedBad")
                    /\ hist' = [hist EXCEPT !.gam = "false"]
                    /\ pc' = "gam_end"
               ELSE /\ shape' = shape
                    /\ hist' = hist
                    /\ pc' = "loop"
    /\ UNCHANGED <<in, fx, gw, acc>>

(***************************************************************************)
(* The image's answers to calcmom.  Moments(sum, cx, cy, sxx, sxy, syy)    *)
(* are the sums of an object of weighted flux sum, centroid (cx, cy) and   *)
(* weighted second moments (sxx, sxy, syy) about the centre.  Each sum     *)
(* starts at +0.0 (line 300) and is only added to (lines 342-348 and       *)
(* 361-367), so that a sum of zero is +0.0 whatever the sign of the flux.  *)
(***************************************************************************)
Summed(a) == IF IsZero(a) THEN Zero ELSE a
Moments(sum, cx, cy, sxx, sxy, syy) ==
    <<Summed(sum), Summed(DMul(sum, cx)), Summed(DMul(sum, cy)),
      Summed(DMul(sum, sxx)), Summed(DMul(sum, sxy)), Summed(DMul(sum, syy))>>

\* The sums of an image of 7 by 7 pixels that is zero but for the line
\* i + j = 6, where the pixels (j, 6 - j), j = 0 .. 5, are the floats
\*   0x1.3c758ap+9, -0x1.a4963ep+10, 0x1.91756cp+10, -0x1.a1347ap+7,
\*   0x1.087fc2p+10, -0x1.301e70p+9,
\* about the centre (3.015625, 3) in the box (0, 0)-(6, 6), without
\* interpolation and with no background: LineSums0 with the weights 0 of
\* the fallback, LineSums1 with the weights (2/3, 0, 2/3) of the first pass
\* (either sums every pixel), and LineSums2 with the weights of the second
\* pass, about (4188.43, 4200.38, 4212.37), which sums the seven pixels of
\* the line and no other
LineSums0 ==
    <<<<0, 1, 26134491, 134217728, 9>>, <<0, 1, 17156590, 0, 11>>,
      <<0, 1, 22045151, 0, 11>>, <<0, -1, 25976088, 220102656, 9>>,
      <<0, 1, 26135224, 0, 9>>, <<0, -1, 26287988, 0, 9>>>>
LineSums1 ==
    <<<<0, 1, 32768001, 106954752, 9>>, <<0, 1, 23519860, 0, 11>>,
      <<0, 1, 25632141, 184549376, 11>>, <<0, 1, 24646406, 76382208, 9>>,
      <<0, -1, 24572397, 100663296, 9>>, <<0, 1, 24506388, 260046848, 9>>>>
LineSums2 ==
    <<<<0, 1, 32768020, 134217728, 8>>, <<0, 1, 23519856, 134217728, 10>>,
      <<0, 1, 25632173, 134217728, 10>>, <<0, 1, 24646876, 89161728, 8>>,
      <<0, -1, 24572906, 0, 8>>, <<0, 1, 24506884, 0, 8>>>>
LineImage == {LineSums0, LineSums1, LineSums2}

PixelSums ==
    {ZeroSums,
     \* a round object on the centre
     Moments(FromInt(4), FromInt(3), FromInt(3), One, Zero, One),
     \* a narrow object, off the centre by three pixels
     Moments(FromInt(4), FromInt(6), FromInt(3), DLit(1, 8), Zero, DLit(1, 8)),
     \* a negative object
     Moments(FromInt(-4), FromInt(3), FromInt(3), One, Zero, One),
     \* flux on the centre pixel only
     Moments(FromInt(4), FromInt(3), FromInt(3), Zero, Zero, Zero),
     \* a line along x, a pixel wide
     Moments(One, FromInt(3), FromInt(3), One, Zero, Canon(1, -21)),
     \* a thin line along the diagonal
     Moments(One, FromInt(3), FromInt(3), DLit(15, 16), DLit(9, 16), Canon(3932159, -22)),
     \* a round object whose centroid is 15 pixels off the centre
     Moments(FromInt(4), FromInt(18), FromInt(3), One, Zero, One),
     \* a pixel that is not a number
     <<NaN, NaN, NaN, NaN, NaN, NaN>>}

\* the answers of the image that is measured: the line of pixels at its
\* centre, any of the objects at another
ImageSums(xcen, ycen) ==
    IF <<xcen, ycen>> = LineCentre THEN LineImage ELSE PixelSums

(***************************************************************************)
(* One pass of the loop of getAdaptiveMoments, lines 431-562.  The result  *)
(* is [out, loc, shape, exc, called, redo]: out is "continue", "break",    *)
(* "return" (the return false of line 443) or "throw"; called and redo     *)
(* tell whether the pass called calcmom and whether it was a pass redone.  *)
(***************************************************************************)
xcen0 == ToFloat(in.xcen)
ycen0 == ToFloat(in.ycen)

\* how a pass that called calcmom ends
PassEnd(out, l, sh, redo) ==
    [out |-> out, loc |-> l, shape |-> sh, exc |-> "none",
     called |-> TRUE, redo |-> redo]

\* lines 546-561: the new weights, and the next iteration
LoopNext(l, sh, nw, redo) ==
    IF ~nw[1]
    THEN PassEnd("break", l, Set(sh, "unweighted"), redo)
    ELSE IF FLe(nw[3], Zero) \/ FLe(nw[5], Zero)
    THEN PassEnd("break",
                 [l EXCEPT !.sigma11W = nw[3], !.sigma12W = nw[4],
                           !.sigma22W = nw[5]],
                 Set(sh, "unweighted"), redo)
    ELSE PassEnd("continue",
                 [l EXCEPT !.sigma11W = nw[3], !.sigma12W = nw[4],
                           !.sigma22W = nw[5], !.iter = l.iter + 1],
                 sh, redo)

\* lines 531-544: the weights of the object, less the weights of the window
LoopNewWeights(l, sh, ow, redo) ==
    IF ~ow[1]
    THEN PassEnd("break", l, Set(sh, "unweighted"), redo)
    ELSE LoopNext(l, sh,
                  getWeights(ToFloat(DSub(ToFloat(ow[3]), l.w11)),
                             ToFloat(DSub(ToFloat(ow[4]), l.w12)),
                             ToFloat(DSub(ToFloat(ow[5]), l.w22))),
                  redo)

\* lines 497-504: the test of convergence
LoopConverged(l, sh, sigma11_ow, sigma12_ow, sigma22_ow, e1, e2, redo) ==
    IF /\ l.iter > 0
       /\ FLt(FAbs(SSub(e1, l.e1_old)), tol1)
       /\ FLt(FAbs(SSub(e2, l.e2_old)), tol1)
       /\ FLt(FAbs(DSub(SDiv(sigma11_ow, l.sigma11_ow_old), One)), tol2)
    THEN PassEnd("break", l, sh, redo)
    ELSE LoopNewWeights([l EXCEPT !.e1_old = e1, !.e2_old = e2,
                                  !.sigma11_ow_old = sigma11_ow],
                        sh, getWeights(sigma11_ow, sigma12_ow, sigma22_ow), redo)

\* lines 491-493
LoopShape(l, sh, sigma11_ow, sigma12_ow, sigma22_ow, d, redo) ==
    LoopConverged(l, sh, sigma11_ow, sigma12_ow, sigma22_ow,
                  SDiv(SSub(sigma11_ow, sigma22_ow), d),
                  ToFloat(DDiv(DMul(Two, sigma12_ow), d)), redo)

\* lines 486-491
LoopSecond(l, sh, sigma11_ow, sigma12_ow, sigma22_ow, redo) ==
    IF FLe(sigma11_ow, Zero) \/ FLe(sigma22_ow, Zero)
    THEN PassEnd("break", l, Set(sh, "unweighted"), redo)
    ELSE LoopShape(l, sh, sigma11_ow, sigma12_ow, sigma22_ow,
                   SAdd(sigma11_ow, sigma22_ow), redo)

\* lines 476-484
LoopCentroid(l, sh, redo) ==
    LoopSecond(l,
               IF \/ FGt(FAbs(DSub(sh.x, xcen0)), l.shiftmax)
                  \/ FGt(FAbs(DSub(sh.y, ycen0)), l.shiftmax)
               THEN Set(sh, "shift") ELSE sh,
               ToFloat(DDiv(l.sums[4], l.sums[1])),
               ToFloat(DDiv(l.sums[5], l.sums[1])),
               ToFloat(DDiv(l.sums[6], l.sums[1])), redo)

\* lines 473-561: from the sums of a successful calcmom to the next weights
LoopMoments(l, sh, redo) ==
    LoopCentroid(l, [sh EXCEPT !.x = DDiv(l.sums[2], l.sums[1]),
                               !.y = DDiv(l.sums[3], l.sums[1])], redo)

\* lines 467-472: the outcome of calcmom
LoopSums(l, sh, cm, redo) ==
    IF cm.exc # "none"
    THEN [out |-> "throw", loc |-> l, shape |-> sh, exc |-> cm.exc,
          called |-> TRUE, redo |-> redo]
    ELSE IF cm.ret < 0
    THEN PassEnd("break", [l EXCEPT !.I0 = cm.I0, !.sums = cm.sums],
                 Set(sh, "unweighted"), redo)
    ELSE LoopMoments([l EXCEPT !.I0 = cm.I0, !.sums = cm.sums], sh, redo)

LoopCalcmom(l, sh, pixsums, redo) ==
    CHOOSE r \in {LoopSums(l, sh, cm, redo) :
                     cm \in {calcmom(pixsums, xcen0, ycen0, l.bbox, l.interpflag,
                                     l.w11, l.w12, l.w22, in.negative)}} : TRUE

\* variant: the flag follows the weights of the pass
InterpFlagOfPass(l, detW) == shouldInterp(l.sigma11W, l.sigma22W, detW)

\* lines 454-456: "interpflag = true;  // N.b.: stays set for this object"
InterpFlag(l, detW) ==
    l.interpflag \/ shouldInterp(l.sigma11W, l.sigma22W, detW)

\* variant: the pass is redone at every pass that interpolates
RedoEveryPass(l, detW) ==
    shouldInterp(l.sigma11W, l.sigma22W, detW) /\ l.iter > 0

\* the first switch into interpolation, at an iteration after the first
Redo(l, detW) ==
    shouldInterp(l.sigma11W, l.sigma22W, detW) /\ ~l.interpflag /\ l.iter > 0

\* lines 445-466: the weights of the pass, or the pass again with the old ones
LoopRedo(l, sh, pixsums, weights, redo) ==
    LoopCalcmom([l EXCEPT
                   !.w11 = IF redo THEN @ ELSE weights[3],
                   !.w12 = IF redo THEN @ ELSE weights[4],
                   !.w22 = IF redo THEN @ ELSE weights[5],
                   !.interpflag = InterpFlag(l, weights[2]),
                   !.sigma11_ow_old = IF redo THEN FromInt(1000000) ELSE @,
                   !.iter = IF redo THEN @ - 1 ELSE @],
                sh, pixsums, redo)

\* lines 436-443
LoopWeights(l, sh, pixsums, weights) ==
    IF ~weights[1]
    THEN [out |-> "break", loc |-> l, shape |-> Set(sh, "unweighted"),
          exc |-> "none", called |-> FALSE, redo |-> FALSE]
    ELSE IF FLt(DMul(l.sigma11W, l.sigma22W),
                DSub(DMul(l.sigma12W, l.sigma12W), FltEpsilon))
    THEN [out |-> "return", loc |-> l, shape |-> sh,
          exc |-> "none", called |-> FALSE, redo |-> FALSE]
    ELSE LoopRedo(l, sh, pixsums, weights, Redo(l, weights[2]))

\* lines 432-435: the box of the pass, whose conversion may throw
LoopBox(l, sh, pixsums, box) ==
    IF box = NonFiniteBox
    THEN [out |-> "throw", loc |-> l, shape |-> sh,
          exc |-> "InvalidParameterError", called |-> FALSE, redo |-> FALSE]
    ELSE LoopWeights([l EXCEPT !.bbox = box], sh, pixsums,
                     getWeights(l.sigma11W, l.sigma12W, l.sigma22W))

LoopBody(l, sh, pixsums) ==
    LoopBox(l, sh, pixsums,
            computeAdaptiveMomentsBBox(ImageBBox, in.xcen, in.ycen,
                                       l.sigma11W, l.sigma12W, l.sigma22W))

\* the passes explored (more than the loop can make)
PassCap == MaxIterBound + 3

LoopPass ==
    /\ pc = "loop"
    /\ loc.iter < in.maxIter
    /\ hist.passes < PassCap
    /\ \E pixsums \in ImageSums(in.xcen, in.ycen) :
         \E r \in {LoopBody(loc, shape, pixsums)} :
            /\ loc' = r.loc
            /\ shape' = r.shape
            /\ exc' = r.exc
            /\ pc' = CASE r.out = "continue" -> "loop"
                       [] r.out = "break" -> "after_loop"
                       [] r.out = "return" -> "gam_end"
                       [] r.out = "throw" -> "gam_end"
            /\ hist' = [hist EXCEPT
                          !.passes = @ + 1,
                          !.exit = IF r.out = "continue" THEN @ ELSE r.out,
                          !.gam = CASE r.out = "return" -> "false"
                                    [] r.out = "throw" -> "throw"
                                    [] OTHER -> @,
                          !.calls = IF r.called THEN @ + 1 ELSE @,
                          !.redo = IF r.redo THEN @ + 1 ELSE @,
                          !.ubox = IF r.called
                                   THEN UnclippedBBox(in.xcen, in.ycen,
                                                      loc.sigma11W, loc.sigma22W)
                                   ELSE @,
                          !.cbox = IF r.called THEN r.loc.bbox ELSE @,
                          !.flat = IF r.called /\ r.out # "throw"
                                   THEN @ /\ r.loc.sums = ZeroSums ELSE @]
    /\ UNCHANGED <<in, rec, fx, gw, acc>>

\* the loop ends because "iter < maxIter" is false
LoopEnd ==
    /\ pc = "loop"
    /\ ~(loc.iter < in.maxIter)
    /\ pc' = "after_loop"
    /\ hist' = [hist EXCEPT !.exit = "cond"]
    /\ UNCHANGED <<in, loc, shape, exc, rec, fx, gw, acc>>

(***************************************************************************)
(* getAdaptiveMoments after the loop, lines 564-571.  When calcmom was     *)
(* never called sumxx and sumyy hold no value and the comparison of line   *)
(* 569 has either outcome.                                                 *)
(***************************************************************************)
\* variant: reaching maxIter sets "unweighted" alone
AfterLoopFlagsNoMaxIter(l, sh, zero) ==
    IF l.iter = in.maxIter \/ zero THEN Set(sh, "unweighted") ELSE sh

AfterLoopFlags(l, sh, zero) ==
    [sh EXCEPT !.flags["unweighted"] = @ \/ l.iter = in.maxIter \/ zero,
               !.flags["maxIter"] = @ \/ l.iter = in.maxIter]

AfterLoop ==
    /\ pc = "after_loop"
    /\ \E zero \in BOOLEAN :
         /\ \/ loc.sums[4] = Uninit
            \/ zero = FEq(DAdd(loc.sums[4], loc.sums[6]), Zero)
         /\ shape' = AfterLoopFlags(loc, shape, zero)
    /\ pc' = IF shape'.flags["unweighted"] THEN "fallback" ELSE "finish"
    /\ UNCHANGED <<in, loc, exc, hist, rec, fx, gw, acc>>

(***************************************************************************)
(* The unweighted moments, lines 575-596                                   *)
(***************************************************************************)
\* "(!negative && sum <= 0) || (negative && sum >= 0)"
WrongSign(sum, negative) ==
    (~negative /\ FLe(sum, Zero)) \/ (negative /\ FGe(sum, Zero))

\* variant: "unweighted" is cleared and "unweightedBad" is not set
FallbackFailedNoBad(sh, sum) ==
    [sh EXCEPT !.flags["unweighted"] = FALSE,
               !.xx = IF FGt(sum, Zero) THEN Twelfth ELSE @,
               !.xy = IF FGt(sum, Zero) THEN Zero ELSE @,
               !.yy = IF FGt(sum, Zero) THEN Twelfth ELSE @]

\* variant: the single-pixel shape is stored whatever the sum
FallbackFailedAnySum(sh, sum) ==
    [sh EXCEPT !.flags["unweighted"] = FALSE, !.flags["unweightedBad"] = TRUE,
               !.xx = Twelfth, !.xy = Zero, !.yy = Twelfth]

\* variant: "unweighted" stays set beside "unweightedBad"
FallbackFailedKeepsUnweighted(sh, sum) ==
    [sh EXCEPT !.flags["unweightedBad"] = TRUE,
               !.xx = IF FGt(sum, Zero) THEN Twelfth ELSE @,
               !.xy = IF FGt(sum, Zero) THEN Zero ELSE @,
               !.yy = IF FGt(sum, Zero) THEN Twelfth ELSE @]

\* lines 581-588
FallbackFailed(sh, sum) ==
    [sh EXCEPT !.flags["unweighted"] = FALSE,
               !.flags["unweightedBad"] = TRUE,
               !.xx = IF FGt(sum, Zero) THEN Twelfth ELSE @,
               !.xy = IF FGt(sum, Zero) THEN Zero ELSE @,
               !.yy = IF FGt(sum, Zero) THEN Twelfth ELSE @]

Fallback ==
    /\ pc = "fallback"
    /\ \E pixsums \in ImageSums(in.xcen, in.ycen) :
         \E cm \in {calcmom(pixsums, xcen0, ycen0, loc.bbox, loc.interpflag,
                            Zero, Zero, Zero, in.negative)} :
            IF cm.exc # "none"
            THEN /\ loc' = [loc EXCEPT !.w11 = Zero, !.w12 = Zero, !.w22 = Zero]
                 /\ shape' = shape
                 /\ exc' = cm.exc
                 /\ hist' = [hist EXCEPT !.fbcalls = @ + 1, !.gam = "throw"]
                 /\ pc' = "gam_end"
            ELSE IF cm.ret < 0 \/ WrongSign(cm.sums[1], in.negative)
            THEN /\ loc' = [loc EXCEPT !.w11 = Zero, !.w12 = Zero, !.w22 = Zero,
                                       !.I0 = cm.I0, !.sums = cm.sums]
                 /\ shape' = FallbackFailed(shape, cm.sums[1])
                 /\ exc' = exc
                 /\ hist' = [hist EXCEPT !.fbcalls = @ + 1, !.fb = "bad",
                                         !.cbox = loc.bbox, !.gam = "false",
                                         !.flat = @ /\ cm.sums = ZeroSums]
                 /\ pc' = "gam_end"
            ELSE /\ loc' = [loc EXCEPT !.w11 = Zero, !.w12 = Zero, !.w22 = Zero,
                                       !.I0 = cm.I0, !.sums = cm.sums,
                                       !.sigma11W = DDiv(cm.sums[4], cm.sums[1]),
                                       !.sigma12W = DDiv(cm.sums[5], cm.sums[1]),
                                       !.sigma22W = DDiv(cm.sums[6], cm.sums[1])]
                 /\ shape' = shape
                 /\ exc' = exc
                 /\ hist' = [hist EXCEPT !.fbcalls = @ + 1, !.fb = "ok",
                                         !.cbox = loc.bbox,
                                         !.flat = @ /\ cm.sums = ZeroSums]
                 /\ pc' = "finish"
    /\ UNCHANGED <<in, rec, fx, gw, acc>>

(***************************************************************************)
(* The result and its errors, lines 598-631                                *)
(***************************************************************************)
\* the variance plane at the centre pixel
Variances == {Zero, One, NaN}

\* what the conversion of a NaN to int gives: INT_MIN, or 0
NanInts == {-2147483647 - 1, 0}

\* The conversion to int of a value that no int holds is undefined and gives
\* what the build gives: INT_MIN for every such value where it gives INT_MIN
\* for a NaN, and where it gives 0 for a NaN the end of the range of int on
\* the side of an infinity.
BadInt(a, nanInt) ==
    IF IsNaN(a) \/ nanInt # 0 THEN nanInt
    ELSE IF a = PInf THEN 2147483647 ELSE -2147483647 - 1

\* afw::image::positionToIndex: static_cast<int>(std::floor(pos + 0.5))
positionToIndex(pos, nanInt) ==
    IF IsFin(pos) THEN FloorInt(DAdd(pos, DLit(1, 2))) ELSE BadInt(pos, nanInt)

\* lines 598-601
StoreMoments(l, sh) ==
    [sh EXCEPT !.instFlux = l.I0, !.xx = l.sigma11W, !.xy = l.sigma12W,
               !.yy = l.sigma22W]

\* lines 616-625; the errors of the moments and their covariances are
\* members of type ErrElement, which is float
StoreErrors(sh, cov) ==
    [sh EXCEPT !.instFluxErr = DSqrt(cov[<<0, 0>>]),
               !.xxErr = ToFloat(DSqrt(cov[<<1, 1>>])),
               !.yyErr = ToFloat(DSqrt(cov[<<2, 2>>])),
               !.xyErr = ToFloat(DSqrt(cov[<<3, 3>>])),
               !.instFlux_xx_Cov = cov[<<0, 1>>],
               !.instFlux_yy_Cov = cov[<<0, 2>>],
               !.instFlux_xy_Cov = cov[<<0, 3>>],
               !.xx_yy_Cov = ToFloat(cov[<<1, 2>>]),
               !.xx_xy_Cov = ToFloat(cov[<<1, 3>>]),
               !.yy_xy_Cov = ToFloat(cov[<<2, 3>>])]

\* "ix >= 0 && ix < mimage.getWidth() && iy >= 0 && iy < mimage.getHeight()"
InImage(ix, iy) == ix >= 0 /\ ix < ImgW /\ iy >= 0 /\ iy < ImgH
\* lines 604-607; the centre is not NaN here (line 422), and the index of an
\* infinite centre is outside the image whatever the build
CentreInImage ==
    \E n \in NanInts :
       InImage(positionToIndex(in.xcen, n), positionToIndex(in.ycen, n))

\* variant: the errors are computed for unweighted moments too
WantsErrorsUnweighted(sh, bkgd_var) ==
    /\ FNe(DAdd(sh.xx, sh.yy), Zero)
    /\ CentreInImage
    /\ FGt(bkgd_var, Zero)

\* the conditions of lines 603-612 under which calc_fisher is called
WantsErrors(sh, bkgd_var) ==
    /\ FNe(DAdd(sh.xx, sh.yy), Zero)
    /\ CentreInImage
    /\ FGt(bkgd_var, Zero)
    /\ ~sh.flags["unweighted"]

Finish ==
    /\ pc = "finish"
    /\ \E sh \in {StoreMoments(loc, shape)} :
       \E reads \in {FNe(DAdd(sh.xx, sh.yy), Zero) /\ CentreInImage} :
       \E variance \in (IF reads THEN Variances ELSE {Uninit}) :
       \E bkgd_var \in {ToFloat(variance)} :
          IF reads /\ WantsErrors(sh, bkgd_var)
          THEN \E fisher \in {calc_fisher(sh, bkgd_var)} :
                 IF fisher.exc # "none"
                 THEN /\ shape' = sh
                      /\ exc' = "DomainError"
                      /\ hist' = [hist EXCEPT !.var = bkgd_var, !.gam = "throw"]
                 ELSE /\ shape' = StoreErrors(sh, inverse(fisher.fisher))
                      /\ exc' = exc
                      /\ hist' = [hist EXCEPT !.var = bkgd_var, !.gam = "true",
                                              !.fisher = TRUE]
          ELSE /\ shape' = sh
               /\ exc' = exc
               /\ hist' = [hist EXCEPT !.var = bkgd_var, !.gam = "true"]
    /\ pc' = "gam_end"
    /\ UNCHANGED <<in, loc, rec, fx, gw, acc>>

(***************************************************************************)
(* computeAdaptiveMoments after getAdaptiveMoments, lines 782-830          *)
(***************************************************************************)
\* variant: "failure" is set whatever getAdaptiveMoments returns
TryGetAdaptiveMomentsFails(sh, gam) ==
    [sh EXCEPT !.flags["failure"] = TRUE]

\* lines 782-788: "failure" is the negated return value, or set by the catch
TryGetAdaptiveMoments(sh, gam) ==
    [sh EXCEPT !.flags["failure"] = (gam # "true")]

\* variant: "unweighted" and "shift" are not fatal
FatalFlagsNone(sh) == sh

\* variant: every result is a failure
FatalFlagsAll(sh) == Set(sh, "failure")

\* lines 789-793
FatalFlags(sh) ==
    IF sh.flags["unweighted"] \/ sh.flags["shift"] THEN Set(sh, "failure") ELSE sh

\* variant: no shape is found singular
SingularNever(sh) == FALSE

\* lines 794-798: "IxxIyy < (1.0 + epsilon) * Ixy_sq"
Singular(sh) ==
    FLt(DMul(sh.xx, sh.yy), DMul(DAdd(One, epsilon), DMul(sh.xy, sh.xy)))

\* image.getX0(), image.getY0(): the origin of the images measured
ImageOrigin == <<0, 0>>

\* lines 819-828, for an image with a variance plane; the origin is added
\* to the centroid (lines 821-822), which makes a centroid of -0.0 one of
\* +0.0 when the origin is 0
ScaleBy(sh, instFluxScale) ==
    [sh EXCEPT !.instFlux = DMul(@, instFluxScale),
               !.instFluxErr = DMul(@, instFluxScale),
               !.x = DAdd(@, FromInt(ImageOrigin[1])),
               !.y = DAdd(@, FromInt(ImageOrigin[2])),
               !.instFlux_xx_Cov = DMul(@, instFluxScale),
               !.instFlux_yy_Cov = DMul(@, instFluxScale),
               !.instFlux_xy_Cov = DMul(@, instFluxScale)]
Scale(sh) ==
    ScaleBy(sh, DMul(TWOPI, DSqrt(DSub(DMul(sh.xx, sh.yy), DMul(sh.xy, sh.xy)))))

PostProcess ==
    /\ pc = "gam_end"
    /\ \E sh \in {FatalFlags(TryGetAdaptiveMoments(shape, hist.gam))} :
          IF Singular(sh) /\ ~sh.flags["failure"]
          THEN /\ shape' = sh
               /\ exc' = "LogicError"
               /\ pc' = "thrown"
          ELSE /\ shape' = Scale(sh)
               /\ exc' = exc
               /\ pc' = "cam_done"
    /\ UNCHANGED <<in, loc, hist, rec, fx, gw, acc>>

(***************************************************************************)
(* SdssShapeAlgorithm::measure after computeAdaptiveMoments, lines 893-913 *)
(* and SdssShapeResultKey::set.  Psf::computeShape is the caller's: it     *)
(* returns or throws.                                                      *)
(***************************************************************************)
PsfOutcomes == {"null", "shape", "throws"}

\* variant: a PSF without a shape fails the measurement
PsfFlagsFailure(sh, doMeasurePsf, psf) ==
    IF doMeasurePsf /\ psf # "shape"
    THEN Set(Set(sh, "psfShapeBad"), "failure") ELSE sh

\* lines 893-911
PsfFlags(sh, doMeasurePsf, psf) ==
    IF doMeasurePsf /\ psf # "shape" THEN Set(sh, "psfShapeBad") ELSE sh

\* lines 733-736: psfShapeBad has a field only when the PSF is measured
RecordFlags(old, sh, includePsf) ==
    [f \in FlagNames |->
       IF f = "psfShapeBad" /\ ~includePsf THEN old[f] ELSE sh.flags[f]]

MeasureEnd ==
    /\ pc = "cam_done"
    /\ \E doMeasurePsf \in BOOLEAN, psf \in PsfOutcomes :
         /\ shape' = PsfFlags(shape, doMeasurePsf, psf)
         /\ rec' = [written |-> TRUE,
                    flags |-> RecordFlags(rec.flags, shape', doMeasurePsf),
                    psf |-> IF doMeasurePsf THEN psf ELSE "unconsulted",
                    slot |-> rec.slot]
    /\ pc' = "done"
    /\ UNCHANGED <<in, loc, exc, hist, fx, gw, acc>>

\* FlagHandler::handleFailure, NaiveFlux.cc lines 358-367: error is
\* "nullptr" or the flag of the MeasurementError
handleFailure(flags, error) ==
    [f \in FlagNames |-> flags[f] \/ f = "failure" \/ f = error]

\* the errors that fail is called with: measure throws no MeasurementError
FailErrors == {"nullptr"}

\* SdssShapeAlgorithm::fail, lines 916-918, which the caller of measure
\* invokes on the record after measure has thrown
Fail ==
    /\ pc = "thrown"
    /\ \E error \in FailErrors :
         rec' = [rec EXCEPT !.flags = handleFailure(@, error)]
    /\ pc' = "failed"
    /\ UNCHANGED <<in, loc, shape, exc, hist, fx, gw, acc>>

\* measure has thrown
Thrown == pc \in {"thrown", "failed"}
\* measure has ended
Terminated == pc = "done" \/ Thrown
\* no step follows
Halted == pc \in {"done", "failed"}

(***************************************************************************)
(* computeFixedMomentsFlux, lines 834-879, and the accumulator of the      *)
(* weighted flux, lines 194-275.  fx.args are the arguments of the calls:  *)
(* whether the image is a MaskedImage, the shape <<ixx, ixy, iyy>>, the    *)
(* centre (cx, cy) in LOCAL coordinates, the image (its weighted sum of    *)
(* pixels without and with interpolation), the variance at the centre      *)
(* pixel, and the int the build converts a NaN to.  fx.calls is the        *)
(* sequence of what each call did.                                         *)
(***************************************************************************)
\* the flux-only calcmom: [exc, sum, read], read tells that the loop over
\* the pixels was reached
calcmomFlux(pixsum, xcen, ycen, bbox, interpflag, w11, w12, w22) ==
    IF BadWeights(w11, w12, w22)
    THEN [exc |-> "InvalidParameterError", sum |-> Zero, read |-> FALSE]
    ELSE IF BoxOutside(bbox)
    THEN [exc |-> "LengthError", sum |-> Zero, read |-> FALSE]
    ELSE CHOOSE r \in {[exc |-> "none", sum |-> LoopSumsOf(used, pixsum, Zero),
                         read |-> TRUE] :
                           used \in {AnyPixelUsed(xcen, ycen, bbox, interpflag,
                                                  w11, w12, w22)}} : TRUE

\* the image's answer to the call: sum of weight * pixel over the box
PixelAnswer(image, interp) == IF interp THEN image.fine ELSE image.flat

\* static_cast<int> of a double: truncation toward zero; the conversion of
\* a NaN or an infinity is undefined and gives what the build gives
TruncInt(a, nanInt) ==
    IF ~IsFin(a) THEN BadInt(a, nanInt)
    ELSE IF a[2] >= 0 THEN FloorInt(a) ELSE -FloorInt(FNeg(a))

\* Quadrupole::getDeterminant
getDeterminant(q) == DSub(DMul(q[1], q[3]), DMul(q[2], q[2]))

\* what a call that throws leaves
FluxThrown(e, accum, interp, read, bbox) ==
    [exc |-> e, instFlux |-> NaN, instFluxErr |-> NaN, accum |-> accum,
     bkgd |-> Zero, interp |-> interp, read |-> read, sum |-> NaN, box |-> bbox]

\* lines 863-878
FluxError(a, interp, bbox, sum0, ix, iy) ==
    IF a.masked /\ ~InImage(ix, iy)
    THEN FluxThrown("RuntimeError", 1, interp, TRUE, bbox)
    ELSE [exc |-> "none",
          instFlux |-> DMul(sum0, Two),
          instFluxErr |->
              IF a.masked
              THEN DMul(Two, DSqrt(DMul(a.variance,
                                        DMul(PI, DSqrt(getDeterminant(a.shape))))))
              ELSE NaN,
          accum |-> 1, bkgd |-> Zero, interp |-> interp, read |-> TRUE,
          sum |-> sum0, box |-> bbox]

\* lines 857-861
FluxSum(a, interp, bbox, cm) ==
    IF cm.exc # "none"
    THEN FluxThrown(cm.exc, 1, interp, FALSE, bbox)
    ELSE FluxError(a, interp, bbox, cm.sum,
                   TruncInt(a.cx, a.nanInt), TruncInt(a.cy, a.nanInt))

\* lines 852-859
FluxAccumulate(a, bbox, weights, interp) ==
    FluxSum(a, interp, bbox,
            calcmomFlux(PixelAnswer(a.image, interp),
                        ToFloat(a.cx), ToFloat(a.cy), bbox, interp,
                        weights[3], weights[4], weights[5]))

\* variant: the accumulator never interpolates
FluxInterpNever(q, det) == FALSE

\* line 855
FluxInterp(q, det) == shouldInterp(q[1], q[3], det)

\* lines 843-856
FluxWeights(a, bbox, weights) ==
    IF bbox = NonFiniteBox \/ ~weights[1]
    THEN FluxThrown("InvalidParameterError", 0, FALSE, FALSE, bbox)
    ELSE FluxAccumulate(a, bbox, weights, FluxInterp(a.shape, weights[2]))

computeFixedMomentsFlux(a) ==
    FluxWeights(a,
                computeAdaptiveMomentsBBox(ImageBBox, a.cx, a.cy,
                                           a.shape[1], a.shape[2], a.shape[3]),
                getWeights(a.shape[1], a.shape[2], a.shape[3]))

\* the shapes, centres and images of the calls
FluxShapes ==
    {<<DLit(3, 2), Zero, DLit(3, 2)>>,
     <<DLit(1, 8), Zero, DLit(1, 8)>>,
     <<Two, One, One>>,
     <<One, One, One>>,
     <<NaN, Zero, One>>,
     <<One, Zero, Canon(1, -21)>>,
     <<FromInt(-1), Zero, FromInt(-1)>>}
FluxCentres ==
    {<<FromInt(3), FromInt(3)>>, <<DLit(-3, 4), FromInt(3)>>,
     <<FromInt(-1), DLit(5, 2)>>, <<FromInt(40), FromInt(3)>>,
     <<NaN, FromInt(3)>>, <<FromInt(3), NaN>>, <<PInf, FromInt(3)>>}
FluxImages ==
    {[flat |-> FromInt(5), fine |-> FromInt(80)],
     [flat |-> Zero, fine |-> Zero]}
FluxArgs ==
    {a \in [masked : BOOLEAN, shape : FluxShapes,
            cx : {c[1] : c \in FluxCentres}, cy : {c[2] : c \in FluxCentres},
            image : FluxImages, variance : Variances, nanInt : NanInts] :
       /\ <<a.cx, a.cy>> \in FluxCentres
       /\ (~a.masked => a.variance = NaN)
       /\ (~(a.masked /\ IsNaN(a.cx)) => a.nanInt = 0)}

\* the calls made of computeFixedMomentsFlux on the same arguments
MaxFluxCalls == 2

\* one call; the arguments are references to const (lines 834-836)
FluxCall ==
    /\ fx.on
    /\ Len(fx.calls) < MaxFluxCalls
    /\ fx' = [fx EXCEPT !.calls = Append(@, computeFixedMomentsFlux(fx.args))]
    /\ UNCHANGED <<pc, in, loc, shape, exc, hist, rec, gw, acc>>

Next ==
    \/ Enter \/ LoopPass \/ LoopEnd \/ AfterLoop \/ Fallback \/ Finish
    \/ PostProcess \/ MeasureEnd \/ Fail

Spec == Init /\ [][Next]_vars

\* calls of computeFixedMomentsFlux, and nothing else
FluxInit ==
    /\ MeasureStart(Inputs)
    /\ in.maxIter = 0 /\ in.maxShift = Zero /\ ~in.negative
    /\ in.xcen = FromInt(3) /\ in.ycen = FromInt(3)
    /\ fx \in [on : {TRUE}, args : FluxArgs, calls : {<<>>}]
    /\ gw = Idle
    /\ acc = Idle

FluxNext == FluxCall

FluxSpec == FluxInit /\ [][FluxNext]_vars

\* the measurement that stands still while another function is called by
\* itself
FixedInputs ==
    {i \in Inputs : /\ i.xcen = FromInt(3) /\ i.ycen = FromInt(3)
                    /\ i.maxIter = 1 /\ i.maxShift = Zero /\ ~i.negative}

(***************************************************************************)
(* getWeights applied to a matrix, and applied again to its result.        *)
(* gw.s is the argument <<sigma11, sigma12, sigma22>>, gw.w the result of  *)
(* getWeights on it and gw.back the result of getWeights on the weights    *)
(* of gw.w (<<>> before the call).                                         *)
(***************************************************************************)
\* among the elements the largest power of two of double, and a number so
\* small that the determinant with it passes and a weight overflows
WeightDiagonals ==
    {NaN, Zero, DLit(1, 8), One, DLit(3, 2), FromInt(3), FromInt(5),
     Canon(1, -24), FromInt(-1), Canon(1, 1023), Canon(3, -1041)}
WeightOffDiagonals ==
    {NaN, Zero, SignedZero(-1), DLit(1, 2), One, FromInt(-1)}

WeightsInit ==
    /\ MeasureStart(FixedInputs)
    /\ fx = Idle
    /\ gw \in [on : {TRUE},
               s : WeightDiagonals \X WeightOffDiagonals \X WeightDiagonals,
               w : {<<>>}, back : {<<>>}]
    /\ acc = Idle

Solve ==
    /\ gw.on
    /\ gw.w = <<>>
    /\ gw' = [gw EXCEPT !.w = getWeights(gw.s[1], gw.s[2], gw.s[3])]
    /\ UNCHANGED <<pc, in, loc, shape, exc, hist, rec, fx, acc>>

SolveBack ==
    /\ gw.on
    /\ gw.w # <<>>
    /\ gw.w[1]
    /\ gw.back = <<>>
    /\ gw' = [gw EXCEPT !.back = getWeights(gw.w[3], gw.w[4], gw.w[5])]
    /\ UNCHANGED <<pc, in, loc, shape, exc, hist, rec, fx, acc>>

WeightsNext == Solve \/ SolveBack

WeightsSpec == WeightsInit /\ [][WeightsNext]_vars

(***************************************************************************)
(* A call of calcmom by itself.  acc.full tells the variant (the one that  *)
(* gives every sum, or the one that gives the sum of the flux alone),      *)
(* acc.args are the box, the weights, the mode and the image's answer,     *)
(* acc.outs the variables the caller passed by reference, <<I0, sums>>,    *)
(* and acc.res what the call did (<<>> before it).                         *)
(***************************************************************************)
AccumBoxes ==
    {ImageBBox, EmptyBox, <<2, 2, 4, 4>>, <<-1, 0, 3, 3>>, <<2, -2, 4, 4>>,
     <<2, 2, ImgW, 4>>, <<1, 1, 3, ImgH>>}
AccumWeights ==
    {<<DLit(2, 3), Zero, DLit(2, 3)>>, <<Zero, Zero, Zero>>,
     <<FromInt(1000000), FromInt(-1000000), FromInt(1000000)>>,
     <<FromInt(-1), FromInt(-1), FromInt(-1)>>,
     <<FromInt(1000001), Zero, One>>, <<One, FromInt(-1000001), One>>,
     <<One, Zero, Canon(-1, -20)>>, <<One, Zero, FromInt(2000000)>>,
     <<NaN, Zero, One>>}
\* the image's answers: those of the measurement, a line along x without
\* width, and an object whose sum of y^2 is below zero
AccumSums ==
    PixelSums \cup
    {Moments(FromInt(4), FromInt(3), FromInt(3), One, Zero, Zero),
     Moments(FromInt(4), FromInt(3), FromInt(3), One, Zero, FromInt(-1)),
     Moments(FromInt(-4), FromInt(3), FromInt(3), One, Zero, FromInt(-1))}
\* the caller's variables before the call: never assigned, or from a call before
AccumOuts == {<<Zero, UninitSums>>,
              <<One, Moments(FromInt(4), FromInt(3), FromInt(3), One, Zero, One)>>}

AccumInit ==
    /\ MeasureStart(FixedInputs)
    /\ fx = Idle
    /\ gw = Idle
    /\ acc \in [on : {TRUE}, full : BOOLEAN,
                args : [bbox : AccumBoxes, w : AccumWeights,
                        xcen : {FromInt(3)}, ycen : {FromInt(3)},
                        interpflag : BOOLEAN,
                        negative : BOOLEAN, pixsums : AccumSums],
                outs : AccumOuts, res : {<<>>}]
    /\ (~acc.full => ~acc.args.negative)

\* variant: the output variables are set to zero when the call is entered
AccumOutputsZeroed(full, outs, r) ==
    IF r.exc # "none" THEN <<Zero, ZeroSums>>
    ELSE IF full THEN <<r.I0, r.sums>>
    ELSE <<outs[1], [outs[2] EXCEPT ![1] = r.sum]>>

\* the output variables after the call: lines 377-389 of the full variant
\* and line 273 of the other assign them, after the loop over the pixels
AccumOutputs(full, outs, r) ==
    IF r.exc # "none" THEN outs
    ELSE IF full THEN <<r.I0, r.sums>>
    ELSE <<outs[1], [outs[2] EXCEPT ![1] = r.sum]>>

AccumResult(full, a) ==
    IF full
    THEN calcmom(a.pixsums, a.xcen, a.ycen, a.bbox, a.interpflag,
                 a.w[1], a.w[2], a.w[3], a.negative)
    ELSE calcmomFlux(a.pixsums[1], a.xcen, a.ycen, a.bbox, a.interpflag,
                     a.w[1], a.w[2], a.w[3])

AccumCall ==
    /\ acc.on
    /\ acc.res = <<>>
    /\ \E r \in {AccumResult(acc.full, acc.args)} :
          acc' = [acc EXCEPT !.res = r, !.outs = AccumOutputs(acc.full, @, r)]
    /\ UNCHANGED <<pc, in, loc, shape, exc, hist, rec, fx, gw>>

AccumNext == AccumCall

AccumSpec == AccumInit /\ [][AccumNext]_vars

(***************************************************************************)
(* measure on records whose centroid slot is valid, flagged, replaced by   *)
(* the peak, or of no use                                                  *)
(***************************************************************************)
SlotInputs ==
    {i \in Inputs : /\ <<i.xcen, i.ycen>> \in {<<FromInt(3), FromInt(3)>>,
                                               <<FromInt(40), FromInt(3)>>}
                    /\ i.maxIter \in {1, 2} /\ i.maxShift = Zero /\ ~i.negative}

SlotInit ==
    /\ MeasureStartOn(SlotInputs, SlotCentroids)
    /\ fx = Idle
    /\ gw = Idle
    /\ acc = Idle

SlotSpec == SlotInit /\ [][Next]_vars

(***************************************************************************)
(* Properties                                                              *)
(***************************************************************************)
\* computeAdaptiveMoments has returned its result
Returned == pc \in {"cam_done", "done"}

\* a flag that names the kind of failure
Specific(sh) ==
    \/ sh.flags["unweightedBad"] \/ sh.flags["unweighted"]
    \/ sh.flags["shift"] \/ sh.flags["maxIter"]

Degenerate(sh) == sh.xx = Twelfth /\ sh.yy = Twelfth /\ sh.xy = Zero
AllNaN(sh) == IsNaN(sh.xx) /\ IsNaN(sh.yy) /\ IsNaN(sh.xy)

\* xx*yy < (1 + 1e-6)*xy^2
Inconsistent(sh) ==
    FLt(DMul(sh.xx, sh.yy),
        DMul(DAdd(One, DLit(1, 1000000)), DMul(sh.xy, sh.xy)))

\* the box lies in the image, or has no pixel
BoxInImage(b) ==
    BoxIsEmpty(b) \/ (b[1] >= 0 /\ b[2] >= 0 /\ b[3] < ImgW /\ b[4] < ImgH)

ErrorsNaN(sh) ==
    /\ IsNaN(sh.instFluxErr) /\ IsNaN(sh.xxErr) /\ IsNaN(sh.yyErr) /\ IsNaN(sh.xyErr)
    /\ IsNaN(sh.instFlux_xx_Cov) /\ IsNaN(sh.instFlux_yy_Cov)
    /\ IsNaN(sh.instFlux_xy_Cov)
    /\ IsNaN(sh.xx_yy_Cov) /\ IsNaN(sh.xx_xy_Cov) /\ IsNaN(sh.yy_xy_Cov)

\* C1 as stated: no step of a measurement clears a flag that was set
C1_EveryFlagMonotonic ==
    [][\A f \in FlagNames : shape.flags[f] => shape'.flags[f]]_vars

\* C1: every flag except "unweighted" is monotonic; "unweighted" is cleared
\* only by the failing unweighted fallback, in the step that sets
\* "unweightedBad" and makes getAdaptiveMoments return false
C1_FlagsMonotonicButUnweighted ==
    [][/\ \A f \in FlagNames \ {"unweighted"} : shape.flags[f] => shape'.flags[f]
       /\ (shape.flags["unweighted"] /\ ~shape'.flags["unweighted"])
            => /\ pc = "fallback"
               /\ shape'.flags["unweightedBad"]
               /\ hist'.gam = "false"]_vars

C1_Witness ==
    /\ Returned
    /\ hist.fb = "bad"
    /\ shape.flags["maxIter"]
    /\ shape.flags["unweightedBad"]
    /\ ~shape.flags["unweighted"]

\* C2: in a returned result each of unweightedBad, unweighted, shift and
\* maxIter implies failure
C2_SpecificImpliesFailure ==
    Returned => (Specific(shape) => shape.flags["failure"])

C2_Witness ==
    /\ Returned
    /\ hist.gam = "true"
    /\ shape.flags["shift"]
    /\ ~shape.flags["unweighted"]
    /\ shape.flags["failure"]

\* C3 as stated: a returned result with failure set has a specific flag set
C3_FailureHasSpecificFlag ==
    (Returned /\ shape.flags["failure"]) => Specific(shape)

\* C3: a returned result with failure set has a specific flag set, unless
\* getAdaptiveMoments threw InvalidParameterError (calcmom's weights out of
\* range) or DomainError (calc_fisher), which the catch turns into failure
\* alone; the loop's early return and calcmom's LengthError never happen
C3_FailureKinds ==
    /\ (Returned /\ shape.flags["failure"] /\ ~Specific(shape))
         => (hist.gam = "throw" /\ exc \in {"InvalidParameterError", "DomainError"})
    /\ hist.exit # "return"
    /\ exc # "LengthError"

C3_Witness ==
    /\ Returned
    /\ shape.flags["failure"]
    /\ ~Specific(shape)
    /\ exc = "InvalidParameterError"
    /\ hist.exit = "throw"

\* C4 as stated: a returned result with failure set has the shape
\* (1/12, 1/12, 0) or a shape that is all NaN
C4_FailedShapeDegenerateOrNaN ==
    (Returned /\ shape.flags["failure"]) => (Degenerate(shape) \/ AllNaN(shape))

\* C4: a returned result with failure set has the shape (1/12, 1/12, 0) or
\* all NaN when getAdaptiveMoments returned false or threw before storing
\* the moments; a result failed for "unweighted", "shift" or a DomainError
\* of the Fisher step carries the moments that were computed
C4_FailedShape ==
    (Returned /\ shape.flags["failure"])
       => \/ Degenerate(shape) \/ AllNaN(shape)
          \/ /\ \/ shape.flags["unweighted"] \/ shape.flags["shift"]
                \/ exc = "DomainError"
             /\ hist.gam # "false"
             /\ shape.xx = loc.sigma11W /\ shape.xy = loc.sigma12W
             /\ shape.yy = loc.sigma22W

C4_Witness ==
    /\ Returned
    /\ shape.flags["failure"]
    /\ shape.flags["unweighted"]
    /\ hist.fb = "ok"
    /\ ~Degenerate(shape) /\ ~AllNaN(shape)

\* the steps left at most: the passes the loop can still make, then one step
\* for each stage after the loop
Rank ==
    CASE pc = "start" -> MaxIterBound + 8
      [] pc = "loop" -> (in.maxIter + 1 - hist.passes) + 6
      [] pc = "after_loop" -> 5
      [] pc = "fallback" -> 4
      [] pc = "finish" -> 3
      [] pc = "gam_end" -> 2
      [] pc = "cam_done" -> 1
      [] pc = "thrown" -> 1
      [] OTHER -> 0

\* C5: the measurement terminates: the loop body runs at most maxIter + 1
\* times, the counter is decremented at most once and then interpolation is
\* on, every box handed to calcmom lies in the image, and every step lowers
\* a rank that is never negative, so no run takes more than
\* maxIter + 8 steps
C5_Terminates ==
    /\ [](/\ hist.passes <= in.maxIter + 1
          /\ hist.redo <= 1
          /\ (hist.redo = 1 => loc.interpflag)
          /\ BoxInImage(hist.cbox)
          /\ Rank >= 0
          /\ (Rank = 0 <=> Halted)
          /\ (Rank <= 1 /\ pc # "cam_done" <=> Terminated)
          /\ (pc = "loop" => hist.passes < PassCap))
    /\ [][Rank' < Rank]_vars

C5_Witness ==
    /\ Terminated
    /\ in.maxIter = MaxIterBound
    /\ hist.passes = in.maxIter + 1
    /\ hist.redo = 1
    /\ ~BoxIsEmpty(hist.cbox)

\* C6: the maxIter flag is set only when the loop ended on its condition
\* with iter = maxIter, and then "unweighted" and "maxIter" are both set by
\* the step after the loop
C6_MaxIterFlag ==
    /\ shape.flags["maxIter"] => (hist.exit = "cond" /\ loc.iter = in.maxIter)
    /\ (pc \in {"fallback", "finish"} /\ hist.exit = "cond" /\ loc.iter = in.maxIter)
         => (shape.flags["maxIter"] /\ shape.flags["unweighted"])

C6_Witness ==
    /\ pc = "fallback"
    /\ hist.exit = "cond"
    /\ in.maxIter > 0
    /\ hist.passes >= in.maxIter
    /\ shape.flags["maxIter"] /\ shape.flags["unweighted"]

\* C7: with "unweighted" set after the loop calcmom is run once more, with
\* zero weights; if it fails or its sum has the wrong sign, unweightedBad is
\* set, getAdaptiveMoments returns false, the result is a failure, and the
\* shape is (1/12, 1/12, 0) if that sum is > 0 and NaN otherwise
C7_UnweightedFallback ==
    /\ hist.fbcalls <= 1
    /\ (pc \notin {"start", "loop", "after_loop", "fallback"} /\ shape.flags["unweighted"])
         => (hist.fbcalls = 1 /\ hist.fb = "ok")
    /\ hist.fbcalls = 1
         => /\ loc.w11 = Zero /\ loc.w12 = Zero /\ loc.w22 = Zero
            /\ hist.fb = "bad" <=> \/ SumsRet(loc.sums, in.negative) < 0
                                   \/ (~in.negative /\ FLe(loc.sums[1], Zero))
                                   \/ (in.negative /\ FGe(loc.sums[1], Zero))
    /\ hist.fb = "bad"
         => /\ shape.flags["unweightedBad"]
            /\ hist.gam = "false"
            /\ Returned => shape.flags["failure"]
            /\ IF FGt(loc.sums[1], Zero) THEN Degenerate(shape) ELSE AllNaN(shape)

C7_Witness ==
    /\ Returned
    /\ hist.fb = "bad"
    /\ FGt(loc.sums[1], Zero)
    /\ Degenerate(shape)
    /\ shape.flags["failure"]

\* C8: no result is returned with failure unset and xx*yy < (1 + 1e-6)*xy^2;
\* LogicError is thrown instead and leaves measure: the record is not
\* written and no flag is set for it
C8_ConsistencyCheck ==
    /\ (Returned /\ ~shape.flags["failure"]) => ~Inconsistent(shape)
    /\ exc = "LogicError"
         => /\ Thrown
            /\ ~rec.written
            /\ pc = "thrown" => \A f \in FlagNames : ~rec.flags[f]
            /\ ~shape.flags["failure"]
            /\ Inconsistent(shape)

C8_Witness ==
    /\ pc = "thrown"
    /\ exc = "LogicError"
    /\ hist.gam = "true"

\* C9 as stated: a call of calcmom whose box around the centre reaches past
\* the image edge ends in LengthError
C9_PastEdgeRaisesLengthError ==
    (hist.calls > 0 /\ ~BoxInImage(hist.ubox)) => exc = "LengthError"

\* C9: the box around the centre is clipped to the image before calcmom is
\* called, so calcmom gets a box inside the image (empty if the centre's
\* box misses the image) and never raises LengthError
C9_BoxClipped ==
    /\ hist.calls > 0 => /\ hist.cbox = Clip(hist.ubox, ImageBBox)
                         /\ BoxInImage(hist.cbox)
    /\ exc # "LengthError"

C9_Witness ==
    /\ hist.calls > 0
    /\ ~BoxInImage(hist.ubox)
    /\ ~BoxIsEmpty(hist.cbox)
    /\ hist.cbox # hist.ubox
    /\ hist.gam = "true"

\* C10 as stated: when getAdaptiveMoments returns true and the variance at
\* the centre pixel is positive the error terms are computed
C10_ErrorsWheneverSuccess ==
    (hist.gam = "true" /\ hist.var # Uninit /\ FGt(hist.var, Zero)) => hist.fisher

\* C10: when getAdaptiveMoments returns true the error terms are computed
\* exactly if "unweighted" is not set, xx + yy is not 0, the centre pixel is
\* in the image and its variance is positive; otherwise they stay NaN
C10_ErrorsOnlyWeighted ==
    hist.gam = "true"
       => /\ hist.fisher <=> /\ ~shape.flags["unweighted"]
                             /\ FNe(DAdd(shape.xx, shape.yy), Zero)
                             /\ CentreInImage
                             /\ hist.var # Uninit
                             /\ FGt(hist.var, Zero)
          /\ ~hist.fisher => ErrorsNaN(shape)

C10_Witness ==
    /\ hist.gam = "true"
    /\ hist.fisher
    /\ FGt(hist.var, Zero)
    /\ ~IsNaN(shape.xxErr)

\* the centre is a position outside the image: its pixel index is
CentreOutside(a) ==
    /\ ~IsNaN(a.cx) /\ ~IsNaN(a.cy)
    /\ ~InImage(positionToIndex(a.cx, a.nanInt), positionToIndex(a.cy, a.nanInt))

\* C11: every call of computeFixedMomentsFlux with a centre outside the
\* image, on a plain Image or on a MaskedImage, ends with an exception and
\* returns no flux
C11_OutsideCentreFails ==
    fx.on /\ CentreOutside(fx.args) =>
        \A i \in 1..Len(fx.calls) : fx.calls[i].exc # "none"

\* getWeights fails on the shape: an element is NaN, or the determinant is
\* NaN or below the epsilon of float
ShapeSingular(q) ==
    \/ IsNaN(q[1]) \/ IsNaN(q[2]) \/ IsNaN(q[3])
    \/ IsNaN(getDeterminant(q))
    \/ FLt(getDeterminant(q), FltEpsilon)

\* the box around the centre cannot be made (line 840): Box2I throws
\* InvalidParameterError for a Box2D that is not finite
FluxBoxFails(a) ==
    computeAdaptiveMomentsBBox(ImageBBox, a.cx, a.cy,
                                a.shape[1], a.shape[2], a.shape[3]) = NonFiniteBox
\* a weight of the shape fails the test of the accumulator (line 208)
FluxWeightsBad(weights) == BadWeights(weights[3], weights[4], weights[5])
\* the pixel of the centre (lines 864-866) is outside the image
FluxCentreOutside(a) ==
    ~InImage(TruncInt(a.cx, a.nanInt), TruncInt(a.cy, a.nanInt))
\* how a call ends once the accumulator has been called
FluxEnd(a, weights) ==
    IF FluxWeightsBad(weights) THEN "InvalidParameterError"
    ELSE IF a.masked /\ FluxCentreOutside(a) THEN "RuntimeError"
    ELSE "none"
\* the sum of the accumulator: the image's answer, or zero when the loops
\* sum no pixel
FluxSumOf(a, c, weights) ==
    IF AnyPixelUsed(ToFloat(a.cx), ToFloat(a.cy), c.box, c.interp,
                    weights[3], weights[4], weights[5])
    THEN PixelAnswer(a.image, c.interp) ELSE Zero

CentroidUpdated ==
    /\ pc = "loop"
    /\ hist'.calls = hist.calls + 1
    /\ exc' = "none"
    /\ SumsRet(loc'.sums, in.negative) = 0

\* control.maxShift as a float, clamped into [2, 10]
ShiftMax == FMax(Two, FMin(FromInt(10), ToFloat(in.maxShift)))

\* the centroid is farther than ShiftMax from the initial centre
Shifted(sh) ==
    \/ FGt(FAbs(DSub(sh.x, ToFloat(in.xcen))), ShiftMax)
    \/ FGt(FAbs(DSub(sh.y, ToFloat(in.ycen))), ShiftMax)

\* C14: a pass that updates the centroid stores (sumx/sum, sumy/sum) and
\* sets shift exactly if it was set or |x - x0| or |y - y0| exceeds maxShift
\* clamped into [2, 10]; the pass does not return or throw, so the iteration
\* goes on or ends by its own tests; no other step changes shift; and with
\* shift set the loop still makes at most maxIter + 1 passes and every step
\* lowers the rank
C14_ShiftFlag ==
    /\ [][/\ CentroidUpdated =>
               /\ shape'.x = DDiv(loc'.sums[2], loc'.sums[1])
               /\ shape'.y = DDiv(loc'.sums[3], loc'.sums[1])
               /\ shape'.flags["shift"] = (shape.flags["shift"] \/ Shifted(shape'))
               /\ pc' \in {"loop", "after_loop"}
               /\ pc' = "after_loop" =>
                      shape'.flags["unweighted"] \/ loc'.iter > 0
          /\ ~CentroidUpdated => shape'.flags["shift"] = shape.flags["shift"]
          /\ shape.flags["shift"] => Rank' < Rank]_vars
    /\ [](shape.flags["shift"] => hist.passes <= Max2(in.maxIter, 0) + 1)

\* the centroid moved 15 pixels, maxShift = 15 was clamped to 10, shift was
\* set, the loop went on to a second pass and the measurement returned
C14_Witness ==
    /\ pc = "done"
    /\ in.xcen = FromInt(3)
    /\ in.maxShift = FromInt(15)
    /\ shape.x = FromInt(18)
    /\ shape.flags["shift"]
    /\ hist.passes >= 2

\* C15: a measurement whose centre has a NaN coordinate is over without a
\* pass of the loop and without a call of calcmom; having returned, its
\* result has unweightedBad and failure set, unweighted, shift and maxIter
\* clear, and its shape, centroid and flux are NaN
C15_NaNCentre ==
    IsNaN(in.xcen) \/ IsNaN(in.ycen) =>
        /\ hist.passes = 0 /\ hist.calls = 0 /\ hist.fbcalls = 0
        /\ hist.var = Uninit
        /\ pc \notin {"loop", "after_loop", "fallback", "finish"} /\ ~Thrown
        /\ ~shape.flags["unweighted"] /\ ~shape.flags["shift"]
        /\ ~shape.flags["maxIter"]
        /\ IsNaN(shape.x) /\ IsNaN(shape.y) /\ AllNaN(shape)
        /\ IsNaN(shape.instFlux)
        /\ pc # "start" => shape.flags["unweightedBad"] /\ hist.gam = "false"
        /\ Returned => shape.flags["failure"]

\* the measurement of a NaN centre has returned and is in the record
C15_Witness ==
    /\ IsNaN(in.xcen)
    /\ pc = "done"
    /\ rec.written
    /\ rec.flags["unweightedBad"] /\ rec.flags["failure"]

\* C16: on an image without signal (every sum of calcmom is zero), with a
\* centre in the image and maxIter >= 1, the loop makes one pass whose
\* calcmom returns sum = 0 and fails, the call with zero weights does the
\* same, nothing is thrown, and the measurement ends with unweightedBad and
\* failure set, unweighted and maxIter clear and the shape NaN
C16_FlatImage ==
    hist.flat /\ in.maxIter >= 1 /\ ~BadCentre(in.xcen, in.ycen) /\ CentreInImage =>
        /\ hist.passes <= 1 /\ hist.calls = hist.passes /\ hist.fbcalls <= 1
        /\ exc = "none"
        /\ pc # "finish" /\ ~Thrown
        /\ hist.calls = 1 => loc.sums[1] = Zero /\ pc # "loop"
        /\ AllNaN(shape)
        /\ ~shape.flags["maxIter"] /\ ~shape.flags["shift"]
        /\ pc = "fallback" => shape.flags["unweighted"]
        /\ pc \in {"gam_end", "cam_done", "done"} =>
               /\ hist.calls = 1 /\ hist.fbcalls = 1 /\ hist.fb = "bad"
               /\ shape.flags["unweightedBad"]
               /\ ~shape.flags["unweighted"]
        /\ Returned => shape.flags["failure"]

\* the measurement of an image without signal has returned
C16_Witness ==
    /\ hist.flat
    /\ in.maxIter >= 1
    /\ CentreInImage
    /\ pc = "done"
    /\ hist.calls = 1 /\ hist.fbcalls = 1
    /\ shape.flags["unweightedBad"]

\* C17: the end of measure writes the result to the record; it sets
\* psfShapeBad exactly when doMeasurePsf is set and the PSF is missing or
\* its shape computation throws, and changes no other flag and no other
\* field of the result; with doMeasurePsf unset the PSF is not consulted and
\* psfShapeBad is never set
C17_PsfShapeBad ==
    /\ [][pc = "cam_done" =>
            /\ pc' = "done"
            /\ rec'.written
            /\ [shape' EXCEPT !.flags["psfShapeBad"] = FALSE] = shape
            /\ shape'.flags["psfShapeBad"] = (rec'.psf \in {"null", "throws"})
            /\ \A f \in FlagNames \ {"psfShapeBad"} : rec'.flags[f] = shape.flags[f]
            /\ rec'.flags["psfShapeBad"] = shape'.flags["psfShapeBad"]]_vars
    /\ [](/\ shape.flags["psfShapeBad"] =>
               pc = "done" /\ rec.psf \in {"null", "throws"}
          /\ rec.psf = "unconsulted" => ~rec.flags["psfShapeBad"])

\* a measurement that succeeded is in the record with psfShapeBad as its
\* only flag, the PSF shape computation having thrown
C17_Witness ==
    /\ pc = "done"
    /\ rec.written
    /\ rec.psf = "throws"
    /\ rec.flags["psfShapeBad"]
    /\ ~rec.flags["failure"]
    /\ ~IsNaN(shape.xx)

\* sigma11 * sigma22 - sigma12^2 in double
Det(q) == DSub(DMul(q[1], q[3]), DMul(q[2], q[2]))

\* C19: getWeights fails exactly when an argument is NaN or the determinant
\* s11*s22 - s12^2 is NaN or below the epsilon of float; when it succeeds
\* it gives the determinant and w11 = s22/det, w12 = -s12/det, w22 = s11/det
C19_GetWeights ==
    gw.on /\ gw.w # <<>> =>
        /\ gw.w[1] = ~(\/ IsNaN(gw.s[1]) \/ IsNaN(gw.s[2]) \/ IsNaN(gw.s[3])
                       \/ IsNaN(Det(gw.s))
                       \/ FLt(Det(gw.s), FltEpsilon))
        /\ gw.w[1] =>
               /\ gw.w[2] = Det(gw.s)
               /\ gw.w[3] = DDiv(gw.s[3], Det(gw.s))
               /\ gw.w[4] = FNeg(DDiv(gw.s[2], Det(gw.s)))
               /\ gw.w[5] = DDiv(gw.s[1], Det(gw.s))
        /\ ~gw.w[1] => IsNaN(gw.w[3]) /\ IsNaN(gw.w[4]) /\ IsNaN(gw.w[5])

\* getWeights succeeded on a matrix with an off-diagonal element, and
\* failed on one whose determinant lies between the two epsilons
C19_Witness ==
    /\ gw.on
    /\ gw.w # <<>>
    /\ \/ gw.s = <<FromInt(3), One, FromInt(5)>> /\ gw.w[1]
       \/ gw.s = <<One, Zero, Canon(1, -24)>> /\ ~gw.w[1]

\* both applications of getWeights succeeded
RoundTrip == gw.on /\ gw.w # <<>> /\ gw.back # <<>> /\ gw.w[1] /\ gw.back[1]

\* C20 as stated: when getWeights succeeds on (s11, s12, s22) and on its
\* result W, getWeights(W) is (s11, s12, s22) again
C20_RoundTripExact ==
    RoundTrip =>
        gw.back[3] = gw.s[1] /\ gw.back[4] = gw.s[2] /\ gw.back[5] = gw.s[3]

\* a is b within the relative error 16 * c * 2^-DoubleBits
Near(a, b, c) ==
    FLe(FAbs(DSub(a, b)),
        DMul(DMul(Canon(1, 4 - DoubleBits), c), FAbs(b)))

\* s11*s22/det, the factor by which the subtraction in the determinant
\* enlarges the rounding errors
Condition(q) == DDiv(DMul(q[1], q[3]), Det(q))

\* the magnitude of a is between 2^-100 and 2^100
Moderate(a) == FLe(Canon(1, -100), FAbs(a)) /\ FLe(FAbs(a), Canon(1, 100))
\* the matrix is far from the ends of the exponent range, so that no
\* product or quotient of the two applications overflows or underflows, and
\* its determinant keeps enough of the bits of s11*s22
WellScaled(q) ==
    /\ Moderate(q[1]) /\ Moderate(q[3])
    /\ IsZero(q[2]) \/ Moderate(q[2])
    /\ FLe(Condition(q), Canon(1, 20))

\* C20: when getWeights succeeds on a well scaled (s11, s12, s22) and on
\* its result W, each element of getWeights(W) is the element of
\* (s11, s12, s22) within a relative error of 16 * (s11*s22/det) units of
\* rounding, in its place (w11 from s22 gives back s11), and a zero s12
\* comes back as the same zero
C20_RoundTripNear ==
    RoundTrip /\ WellScaled(gw.s) =>
        /\ Near(gw.back[3], gw.s[1], Condition(gw.s))
        /\ Near(gw.back[4], gw.s[2], Condition(gw.s))
        /\ Near(gw.back[5], gw.s[3], Condition(gw.s))
        /\ IsZero(gw.s[2]) => gw.back[4] = gw.s[2]

\* a round trip that is near but not exact: (1/8, 1/2, 5), whose determinant
\* is 3/8, comes back with a changed element
C20_Witness ==
    /\ RoundTrip
    /\ gw.s = <<DLit(1, 8), DLit(1, 2), FromInt(5)>>
    /\ WellScaled(gw.s)
    /\ Near(gw.back[3], gw.s[1], Condition(gw.s))
    /\ \/ gw.back[3] # gw.s[1]
       \/ gw.back[4] # gw.s[2]
       \/ gw.back[5] # gw.s[3]

\* C21: no value is computed from the NaN outputs of a failed getWeights:
\* the weighting covariance and the weights that enter a pass are numbers,
\* and after the moments with zero weights were accepted the amplitude I0,
\* and the instFlux that getAdaptiveMoments returns, are numbers
C21_FailedWeightsNeverUsed ==
    /\ pc = "loop" =>
          /\ ~IsNaN(loc.sigma11W) /\ ~IsNaN(loc.sigma12W) /\ ~IsNaN(loc.sigma22W)
          /\ ~IsNaN(loc.w11) /\ ~IsNaN(loc.w12) /\ ~IsNaN(loc.w22)
    /\ pc = "finish" /\ hist.fb = "ok" => ~IsNaN(loc.I0)
    /\ pc = "gam_end" /\ hist.gam = "true" /\ hist.fb = "ok" =>
          ~IsNaN(shape.instFlux)

\* the call of calcmom has been made
AccumDone == acc.on /\ acc.res # <<>>

\* a weight below 0 or above 1e6, an off-diagonal weight above 1e6 in size
WeightsOutside(w) ==
    \/ FLt(w[1], Zero) \/ FGt(w[1], FromInt(1000000))
    \/ FLt(w[3], Zero) \/ FGt(w[3], FromInt(1000000))
    \/ FGt(FAbs(w[2]), FromInt(1000000))

\* the box has a pixel that the image has not
BoxPastImage(b) == b[1] < 0 \/ b[2] < 0 \/ b[3] > ImgW - 1 \/ b[4] > ImgH - 1

\* C22: both variants of calcmom throw InvalidParameterError when a weight
\* is outside 0 <= w11, w22 <= 1e6, |w12| <= 1e6, and LengthError when the
\* weights are inside and the box is not inside the image; a call that
\* throws has read no pixel and has left the caller's output variables as
\* they were, and no other call throws
C22_AccumulatorValidates ==
    [][acc.on /\ acc.res = <<>> /\ acc'.res # <<>> =>
          /\ WeightsOutside(acc.args.w) =>
                acc'.res.exc = "InvalidParameterError"
          /\ ~WeightsOutside(acc.args.w) /\ BoxPastImage(acc.args.bbox) =>
                acc'.res.exc = "LengthError"
          /\ ~WeightsOutside(acc.args.w) /\ ~BoxPastImage(acc.args.bbox) =>
                acc'.res.exc = "none" /\ acc'.res.read
          /\ acc'.res.exc # "none" =>
                ~acc'.res.read /\ acc'.outs = acc.outs]_vars

\* each variant has thrown each error, with outputs that held values
C22_Witness ==
    /\ AccumDone
    /\ acc.outs[2][1] = FromInt(4)
    /\ \/ acc.res.exc = "LengthError" /\ ~acc.full /\ acc.args.bbox[3] = ImgW
       \/ acc.res.exc = "InvalidParameterError" /\ acc.full
          /\ acc.args.w[2] = FromInt(-1000001)

\* the loops of the call sum a pixel of its box
AccumPixelUsed ==
    AnyPixelUsed(acc.args.xcen, acc.args.ycen, acc.args.bbox,
                 acc.args.interpflag, acc.args.w[1], acc.args.w[2], acc.args.w[3])

\* C23: the full calcmom returns 0 exactly when sum, sumxx and sumyy are all
\* above 0 (all below 0 in negative mode) and -1 otherwise, and either way
\* the caller's variables hold the sums of the call (zeros when the loops
\* have summed no pixel) and its I0
C23_AccumulatorReturn ==
    AccumDone /\ acc.full /\ acc.res.exc = "none" =>
        /\ acc.res.ret \in {0, -1}
        /\ acc.res.ret = 0 <=>
              IF acc.args.negative
              THEN /\ FLt(acc.outs[2][1], Zero) /\ FLt(acc.outs[2][4], Zero)
                   /\ FLt(acc.outs[2][6], Zero)
              ELSE /\ FGt(acc.outs[2][1], Zero) /\ FGt(acc.outs[2][4], Zero)
                   /\ FGt(acc.outs[2][6], Zero)
        /\ acc.outs[2] = (IF AccumPixelUsed THEN acc.args.pixsums ELSE ZeroSums)
        /\ acc.outs[1] = acc.res.I0

\* a call that failed on the sign of sumyy alone, and wrote the sums
C23_Witness ==
    /\ AccumDone /\ acc.full /\ acc.res.exc = "none"
    /\ acc.outs[2] = acc.args.pixsums
    /\ acc.res.ret = -1 /\ ~acc.args.negative
    /\ FGt(acc.outs[2][1], Zero) /\ FGt(acc.outs[2][4], Zero)
    /\ acc.outs[2][6] = Zero

\* the weighting covariance that a pass starts with asks for interpolation
InterpAsked(l) ==
    shouldInterp(l.sigma11W, l.sigma22W,
                 Det(<<l.sigma11W, l.sigma12W, l.sigma22W>>))

\* a pass of the loop that has called calcmom
PassWithCall == pc = "loop" /\ hist'.calls = hist.calls + 1

\* C24: interpflag is set by the first pass whose weighting covariance has
\* sigma11 < 0.25, sigma22 < 0.25 or det < 0.0625, and stays set; when that
\* pass is not the first one it calls calcmom with the weights of the pass
\* before and leaves iter where it was, and no other pass does; a
\* measurement redoes one pass at most
C24_InterpolationSticky ==
    /\ [](hist.redo <= 1)
    /\ [][/\ loc.interpflag => loc'.interpflag
          /\ PassWithCall =>
                /\ loc'.interpflag = (loc.interpflag \/ InterpAsked(loc))
                /\ IF ~loc.interpflag /\ InterpAsked(loc) /\ loc.iter > 0
                   THEN /\ hist'.redo = hist.redo + 1
                        /\ <<loc'.w11, loc'.w12, loc'.w22>>
                              = <<loc.w11, loc.w12, loc.w22>>
                        /\ loc'.iter <= loc.iter
                        /\ pc' = "loop" => loc'.iter = loc.iter
                   ELSE /\ hist'.redo = hist.redo
                        /\ loc'.w11 = getWeights(loc.sigma11W, loc.sigma12W,
                                                 loc.sigma22W)[3]
                        /\ pc' = "loop" => loc'.iter = loc.iter + 1
          /\ ~PassWithCall => hist'.redo = hist.redo]_vars

\* a pass was redone, and a pass after it has interpolated without a redo
C24_Witness ==
    /\ hist.redo = 1
    /\ loc.interpflag
    /\ hist.calls >= 3
    /\ loc.iter = 2

\* getAdaptiveMoments has returned true with "unweighted" clear
ReportedConverged ==
    pc = "gam_end" /\ hist.gam = "true" /\ ~shape.flags["unweighted"]

\* C25: a result that getAdaptiveMoments reports as converged comes after
\* two calls of calcmom or more, none of them at fault, was found on a pass
\* with iter above 0, and its shape is the covariance of the weights that
\* the last pass has used
C25_ConvergedAfterTwoPasses ==
    ReportedConverged =>
        /\ hist.calls >= 2
        /\ hist.fbcalls = 0
        /\ loc.iter > 0
        /\ <<shape.xx, shape.xy, shape.yy>>
              = <<loc.sigma11W, loc.sigma12W, loc.sigma22W>>
        /\ getWeights(shape.xx, shape.xy, shape.yy)
              = <<TRUE, Det(<<shape.xx, shape.xy, shape.yy>>),
                  loc.w11, loc.w12, loc.w22>>

\* the loop has converged on its second pass
C25_Witness ==
    /\ ReportedConverged
    /\ hist.exit = "break"
    /\ hist.calls = 2
    /\ loc.iter = 1

\* the centroid a pass starts with: the one the pass before has found, the
\* initial guess on the first pass
CurrentCentroid ==
    IF hist.calls = 0 THEN <<in.xcen, in.ycen>> ELSE <<shape.x, shape.y>>

\* C26: the box of every pass is the box around the centroid found by the
\* pass before (the initial guess on the first pass), of half-width
\* min(4 * sqrt(max(sigma11, sigma22)), 1000), clipped to the image
C26_BoxOnCurrentCentroid ==
    [][PassWithCall =>
          loc'.bbox = computeAdaptiveMomentsBBox(ImageBBox,
                                                 CurrentCentroid[1],
                                                 CurrentCentroid[2],
                                                 loc.sigma11W, loc.sigma12W,
                                                 loc.sigma22W)]_vars

\* the box of every pass is the box around the centre that was passed in
C26_BoxOnInitialCentre ==
    [][PassWithCall =>
          loc'.bbox = computeAdaptiveMomentsBBox(ImageBBox, in.xcen, in.ycen,
                                                 loc.sigma11W, loc.sigma12W,
                                                 loc.sigma22W)]_vars

\* C28: when the extractor has set the failure flag on the record (the
\* centroid slot was flagged, or NaN and replaced by the peak), the flag is
\* set on the record after measure has written its result
C28_ExtractorFailureKept ==
    rec.written /\ rec.slot \in {"flagged", "peak"} => rec.flags["failure"]

\* the flag of the extractor is on the record while the moments are computed
C28_FlagBeforeWrite ==
    /\ pc = "cam_done"
    /\ rec.slot = "peak"
    /\ rec.flags["failure"]
    /\ ~shape.flags["failure"]

\* getAdaptiveMoments has ended: it has returned, or thrown
Ended == hist.gam # "none"

\* C27: when getAdaptiveMoments has ended with "unweightedBad" set,
\* "unweighted" is clear and it has returned false; when it has returned
\* true "unweightedBad" is clear
C27_UnweightedExclusive ==
    Ended =>
        /\ shape.flags["unweightedBad"] =>
              ~shape.flags["unweighted"] /\ hist.gam = "false"
        /\ hist.gam = "true" => ~shape.flags["unweightedBad"]

\* the moments with zero weights were at fault after the loop had set
\* "unweighted" at its last pass
C27_Witness ==
    /\ pc = "gam_end"
    /\ hist.fb = "bad"
    /\ hist.exit = "cond"
    /\ hist.calls > 0
    /\ shape.flags["unweightedBad"]
    /\ shape.flags["maxIter"]

\* C29: the sums that are read after the loop have been assigned by a call
\* of calcmom, whatever maxIter
C29_SumsAssignedBeforeRead ==
    pc = "after_loop" => loc.sums[4] # Uninit /\ loc.sums[6] # Uninit

\* calc_fisher has thrown
FisherThrown == exc = "DomainError"

\* C30 as stated: calc_fisher never fails where getAdaptiveMoments calls it
C30_FisherNeverFails == ~FisherThrown

\* the determinant that calc_fisher computes, in float, of the shape as float
FloatDet(sh) ==
    SSub(SMul(ToFloat(sh.xx), ToFloat(sh.yy)),
         SMul(ToFloat(sh.xy), ToFloat(sh.xy)))

\* C30: calc_fisher is called only with "unweighted" clear and a variance
\* above 0, so that the variance is never its reason to fail; when it
\* throws, the shape has passed getWeights and its determinant in float is
\* at or below the epsilon of double, the error terms stay NaN, and
\* computeAdaptiveMoments, which catches the DomainError, sets "failure"
C30_FisherFailure ==
    /\ hist.fisher \/ FisherThrown =>
          ~shape.flags["unweighted"] /\ FGt(hist.var, Zero)
    /\ FisherThrown =>
          /\ hist.gam = "throw"
          /\ ~hist.fisher
          /\ getWeights(shape.xx, shape.xy, shape.yy)[1]
          /\ FLe(FloatDet(shape), DblEpsilon)
          /\ ErrorsNaN(shape)
          /\ pc \in {"cam_done", "done"} => shape.flags["failure"]
          /\ ~Thrown

\* calc_fisher has thrown for the shape that the loop found in two passes
\* over the line of pixels (the weights that the first pass gave, about
\* (11962.99, -11928.95, 11895.01) as a covariance, met the tolerances at
\* the second), and the result has been written with "failure" set
C30_Witness ==
    /\ FisherThrown
    /\ pc = "done"
    /\ rec.written
    /\ rec.flags["failure"]
    /\ <<in.xcen, in.ycen>> = LineCentre
    /\ hist.exit = "break"
    /\ hist.passes = 2
    /\ hist.fbcalls = 0
    /\ loc.sums = LineSums2
    /\ ~loc.interpflag
    /\ shape.xx = <<0, 1, 24500197, 233260197, 13>>
    /\ shape.xy = <<0, -1, 24430493, 183269482, 13>>
    /\ shape.yy = <<0, 1, 24360988, 78999289, 13>>
    /\ FloatDet(shape) = Zero

====
